---------------------------- MODULE Spec2Model ----------------------------
(***************************************************************************)
(* A model of the SEC SGML submission parsers of secsgml-rust.             *)
(*                                                                         *)
(* Three drivers of the repository are modelled, each as a state machine   *)
(* that runs the driver's steps on an input drawn in Init:                 *)
(*   - byte_parser::parse_sgml_bytes        (SpecBytes)                    *)
(*   - sgml_parser::parse_sgml_submission   (SpecLines)                    *)
(*   - sgml::parse_sgml_into_memory         (SpecMemory)                   *)
(* and sgml_parser::insert_or_append on its own (SpecInsert).              *)
(*                                                                         *)
(* A byte is an integer 0..255 and a byte string (a &[u8], a String of     *)
(* ASCII text) is a sequence of bytes.  Offsets are the code's 0-based     *)
(* offsets; At and Slice translate them to TLA+'s 1-based sequences.       *)
(***************************************************************************)
EXTENDS Integers, Sequences, FiniteSets, TLC

VARIABLES
    prog,        \* which driver runs: "bytes", "lines", "memory", "insert"
    data,        \* the input buffer (bytes) or content (String)
    pc,          \* the driver's position
    lines,       \* the line index (bytes: offset pairs; lines/memory: the Strings)
    stype,       \* the detected submission type, "" before detection
    index,       \* the DocumentIndex
    hdr_i,       \* the header loop's next line
    tag_stack,   \* header parser: the open tags / indents / stack items
    dict_stack,  \* header parser: the frames' dicts
    metadata,    \* the metadata Dict being assembled
    doc_i,       \* the document loop's next position in document_positions
    doc_metadata_list,
    documents,
    result,      \* "" while running, then "Ok", an error kind, or "panic"
    key_order,   \* the order in which the returned root Dict enumerates its keys
    hist         \* SpecInsert: the (key, value) pairs inserted so far

vars == <<prog, data, pc, lines, stype, index, hdr_i, tag_stack, dict_stack,
          metadata, doc_i, doc_metadata_list, documents, result, key_order, hist>>

---------------------------------------------------------------------------
(* Byte constants: byte_parser.rs lines 12-25.                             *)

DOCUMENT_OPEN == <<60, 68, 79, 67, 85, 77, 69, 78, 84, 62>>          \* b"<DOCUMENT>"
DOCUMENT_CLOSE == <<60, 47, 68, 79, 67, 85, 77, 69, 78, 84, 62>>     \* b"</DOCUMENT>"
TEXT_OPEN == <<60, 84, 69, 88, 84, 62>>                              \* b"<TEXT>"
TEXT_CLOSE == <<60, 47, 84, 69, 88, 84, 62>>                         \* b"</TEXT>"
PRIVACY_MSG ==                          \* b"-----BEGIN PRIVACY-ENHANCED MESSAGE-----"
    <<45, 45, 45, 45, 45, 66, 69, 71, 73, 78, 32, 80, 82, 73, 86, 65, 67, 89, 45, 69,
      78, 72, 65, 78, 67, 69, 68, 32, 77, 69, 83, 83, 65, 71, 69, 45, 45, 45, 45, 45>>
SEC_DOCUMENT == <<60, 83, 69, 67, 45, 68, 79, 67, 85, 77, 69, 78, 84, 62>>  \* b"<SEC-DOCUMENT>"
SUBMISSION == <<60, 83, 85, 66, 77, 73, 83, 83, 73, 79, 78, 62>>     \* b"<SUBMISSION>"
ANGLE_OPEN == 60
ANGLE_CLOSE == 62
NEWLINE == 10
CR == 13
SPACE == 32
TAB == 9
SLASH == 47
COLON == 58

KEY_DOCUMENTS == <<100, 111, 99, 117, 109, 101, 110, 116, 115>>      \* "documents"
KEY_PRIVACY ==                                          \* "privacy-enhanced-message"
    <<112, 114, 105, 118, 97, 99, 121, 45, 101, 110, 104, 97, 110, 99, 101, 100,
      45, 109, 101, 115, 115, 97, 103, 101>>
BEGIN == <<98, 101, 103, 105, 110>>                                   \* "begin"
END == <<101, 110, 100>>                                              \* "end"

---------------------------------------------------------------------------
(* Slices and searches on byte strings.                                    *)

\* data[i]
At(s, i) == s[i + 1]

\* &data[a..b]
Slice(s, a, b) == SubSeq(s, a + 1, b)

\* &data[a..]
SliceFrom(s, a) == SubSeq(s, a + 1, Len(s))

\* &data[p..p + pat.len()] == pat, false when the range leaves the buffer
StartsAt(s, pat, p) ==
    /\ p >= 0
    /\ p + Len(pat) <= Len(s)
    /\ SubSeq(s, p + 1, p + Len(pat)) = pat

\* slice.starts_with(pat)
starts_with(s, pat) == StartsAt(s, pat, 0)

SetMin(S) == CHOOSE x \in S : \A y \in S : x <= y

SetMax(S) == CHOOSE x \in S : \A y \in S : x >= y

\* memchr(b, s): the offset of the first byte b, -1 for None
memchr(b, s) ==
    LET hits == {p \in 0..(Len(s) - 1) : At(s, p) = b}
    IN  IF hits = {} THEN -1 ELSE SetMin(hits)

\* find_tag(data, tag, start_pos) = memmem::find(&data[start_pos..], tag) + start_pos,
\* -1 for None
find_tag(s, pat, start_pos) ==
    LET hits == {p \in start_pos..(Len(s) - Len(pat)) : StartsAt(s, pat, p)}
    IN  IF hits = {} THEN -1 ELSE SetMin(hits)

\* memmem::find(s, pat).is_some()
contains(s, pat) == find_tag(s, pat, 0) >= 0

\* Finder::find_iter(data).collect(): the non-overlapping occurrences, left to right
RECURSIVE find_iter(_, _, _)
find_iter(s, pat, from) ==
    LET p == find_tag(s, pat, from)
    IN  IF p < 0 THEN <<>> ELSE <<p>> \o find_iter(s, pat, p + Len(pat))

\* The calls .trim_ascii() and .trim_ascii_start() of byte_parser.rs are method
\* calls on [u8]: they resolve to the inherent methods of the standard library
\* (stable since Rust 1.80), which come before the methods of the trait
\* TrimAscii declared in the file.  The inherent methods test
\* u8::is_ascii_whitespace: space, tab, line feed, form feed, carriage return.
FORM_FEED == 12

is_ascii_whitespace(b) ==
    b = SPACE \/ b = TAB \/ b = NEWLINE \/ b = FORM_FEED \/ b = CR

\* the slice from its first byte that is not whitespace
trim_ascii_start(s) ==
    LET keep == {i \in 1..Len(s) : ~is_ascii_whitespace(s[i])}
    IN  IF keep = {} THEN <<>> ELSE SubSeq(s, SetMin(keep), Len(s))

\* the slice up to its last byte that is not whitespace
trim_ascii_end(s) ==
    LET keep == {i \in 1..Len(s) : ~is_ascii_whitespace(s[i])}
    IN  IF keep = {} THEN <<>> ELSE SubSeq(s, 1, SetMax(keep))

trim_ascii(s) == trim_ascii_end(trim_ascii_start(s))

LowerByte(b) == IF b >= 65 /\ b <= 90 THEN b + 32 ELSE b

\* the function f on 1..n as a tuple
AsSeq(f, n) == IF n = 0 THEN <<>> ELSE SubSeq(f, 1, n)

ascii_to_lowercase(s) == AsSeq([i \in 1..Len(s) |-> LowerByte(s[i])], Len(s))

\* index_lines(data): (line_start, line_end) per line, a CR before the newline
\* excluded, the last line kept when it has content
\* the elements of a finite set of integers in increasing order
SortedSeq(S) ==
    AsSeq([k \in 1..Cardinality(S) |->
              CHOOSE x \in S : Cardinality({y \in S : y < x}) = k - 1],
          Cardinality(S))

index_lines(s) ==
    LET nls == SortedSeq({p \in 0..(Len(s) - 1) : At(s, p) = NEWLINE})
        n == Len(nls)
        line_start(k) == IF k = 1 THEN 0 ELSE nls[k - 1] + 1
        ended == [k \in 1..n |->
                     <<line_start(k),
                       IF nls[k] > 0 /\ At(s, nls[k] - 1) = CR THEN nls[k] - 1
                       ELSE nls[k]>>]
    IN  AsSeq(ended, n)
        \o (IF line_start(n + 1) < Len(s) THEN << <<line_start(n + 1), Len(s)>> >>
            ELSE <<>>)

\* parse_tag_content(data): None when there is no '>' or it is the first byte
NoTag == [ok |-> FALSE, tag |-> <<>>, content |-> <<>>]

parse_tag_content(s) ==
    LET tag_end == memchr(ANGLE_CLOSE, s)
    IN  IF tag_end < 1
        THEN NoTag
        ELSE [ok |-> TRUE,
              tag |-> Slice(s, 1, tag_end),
              content |-> IF tag_end + 1 < Len(s) THEN SliceFrom(s, tag_end + 1)
                          ELSE <<>>]

---------------------------------------------------------------------------
(* MetadataValue and MetadataDict.  A Dict is a hash map: a function from  *)
(* its keys to their values, which holds no order of insertion.            *)

Text(s) == [t |-> "Text", v |-> s]

List(l) == [t |-> "List", v |-> l]

Dict(d) == [t |-> "Dict", v |-> d]

EmptyDict == <<>>

Has(d, k) == k \in DOMAIN d

\* HashMap::insert(key, value): the key's former value is replaced
Put(d, k, v) == [x \in (DOMAIN d) \cup {k} |-> IF x = k THEN v ELSE d[x]]

---------------------------------------------------------------------------
(* types.rs: DocumentIndex.                                                *)

\* DocumentIndex::new()
DocumentIndex_new ==
    [document_positions |-> <<>>,
     text_positions |-> <<>>,
     header_end |-> 0,
     text_leftovers |-> <<>>]

---------------------------------------------------------------------------
(* uu_decoder.rs.                                                          *)

\* (b - 32) & 0x3F on a u8, the subtraction wrapping
UUVal(b) == ((b - 32) % 256) % 64

\* find_begin_line(input): the offset after the newline of the line holding
\* the first "begin", -1 for None
find_begin_line(input) ==
    LET pos == find_tag(input, BEGIN, 0)
    IN  IF pos < 0
        THEN -1
        ELSE LET end_pos == memchr(NEWLINE, SliceFrom(input, pos))
             IN  IF end_pos < 0 THEN -1 ELSE pos + end_pos + 1

\* the while loop of decode_uu_line over complete 4-byte groups; returns the
\* bytes pushed and the loop's final i
RECURSIVE uu_groups(_, _, _, _, _)
uu_groups(line, i, effective_bytes, nbytes, out) ==
    IF i + 3 < effective_bytes /\ Len(out) < nbytes
    THEN LET c1 == UUVal(At(line, i))
             c2 == UUVal(At(line, i + 1))
             c3 == UUVal(At(line, i + 2))
             c4 == UUVal(At(line, i + 3))
             o1 == Append(out, ((c1 * 4) % 256) + (c2 \div 16))
             o2 == IF Len(o1) < nbytes
                   THEN Append(o1, ((c2 % 16) * 16) + (c3 \div 4))
                   ELSE o1
             o3 == IF Len(o2) < nbytes
                   THEN Append(o2, ((c3 % 4) * 64) + c4)
                   ELSE o2
         IN  uu_groups(line, i + 4, effective_bytes, nbytes, o3)
    ELSE [i |-> i, out |-> out]

\* decode_uu_line(line) for a non-empty line (None, for an empty one, adds nothing)
decode_uu_line(line) ==
    IF line = <<>> THEN <<>>
    ELSE
    LET nbytes == UUVal(line[1])
        needed_bytes == ((nbytes * 4 + 2) \div 3) + 1
        effective_bytes == IF needed_bytes <= Len(line) THEN needed_bytes ELSE Len(line)
        g == uu_groups(line, 1, effective_bytes, nbytes, <<>>)
        i == g.i
        remaining == effective_bytes - i
        r1 == IF i < effective_bytes /\ Len(g.out) < nbytes /\ remaining >= 2
              THEN Append(g.out, ((UUVal(At(line, i)) * 4) % 256)
                                 + (UUVal(At(line, i + 1)) \div 16))
              ELSE g.out
        r2 == IF i < effective_bytes /\ Len(g.out) < nbytes /\ remaining >= 3
                 /\ Len(r1) < nbytes
              THEN Append(r1, ((UUVal(At(line, i + 1)) % 16) * 16)
                              + (UUVal(At(line, i + 2)) \div 4))
              ELSE r1
    IN  IF nbytes = 0 THEN <<>>
        ELSE IF Len(r2) > nbytes THEN SubSeq(r2, 1, nbytes) ELSE r2

\* the function trim_ascii of uu_decoder.rs: space, tab, CR and LF are cut
\* from both ends
uu_trim_ascii(input) ==
    LET keep == {i \in 1..Len(input) :
                    ~(input[i] = SPACE \/ input[i] = TAB \/ input[i] = CR
                      \/ input[i] = NEWLINE)}
    IN  IF keep = {} THEN <<>> ELSE SubSeq(input, SetMin(keep), SetMax(keep))

\* the offsets of the line that decode_uu_line reads
decode_uu_line_reads(line) ==
    IF line = <<>> THEN {}
    ELSE
    LET nbytes == UUVal(line[1])
        needed_bytes == ((nbytes * 4 + 2) \div 3) + 1
        effective_bytes == IF needed_bytes <= Len(line) THEN needed_bytes ELSE Len(line)
        g == uu_groups(line, 1, effective_bytes, nbytes, <<>>)
        remaining == effective_bytes - g.i
        rest == IF g.i < effective_bytes /\ Len(g.out) < nbytes
                THEN {g.i + k : k \in 0..((IF remaining >= 3 THEN 3 ELSE remaining) - 1)}
                ELSE {}
    IN  IF nbytes = 0 THEN {0} ELSE (0..(g.i - 1)) \cup rest

\* whether decode_uu_line subtracts 32 from a byte below 32
uu_underflows(line) == \E q \in decode_uu_line_reads(line) : At(line, q) < 32

\* whether the while loop of decode, from offset pos, hands decode_uu_line a
\* line on which it subtracts 32 from a byte below 32
RECURSIVE decode_from_overflows(_, _)
decode_from_overflows(input, pos) ==
    IF pos >= Len(input) THEN FALSE
    ELSE
    LET offset == memchr(NEWLINE, SliceFrom(input, pos))
    IN  IF offset >= 0
        THEN LET line_end == pos + offset
                 line == Slice(input, pos, line_end)
                 trimmed == uu_trim_ascii(line)
             IN  IF line # <<>> /\ trimmed = END
                 THEN FALSE
                 ELSE \/ line # <<>> /\ uu_underflows(trimmed)
                      \/ decode_from_overflows(input, line_end + 1)
        ELSE LET trimmed == uu_trim_ascii(SliceFrom(input, pos))
             IN  trimmed # END /\ trimmed # <<>> /\ uu_underflows(trimmed)

\* the while loop of decode, from offset pos (line_start = pos throughout)
RECURSIVE decode_from(_, _, _)
decode_from(input, pos, out) ==
    IF pos >= Len(input) THEN out
    ELSE
    LET offset == memchr(NEWLINE, SliceFrom(input, pos))
    IN  IF offset >= 0
        THEN LET line_end == pos + offset
                 line == Slice(input, pos, line_end)
                 trimmed == uu_trim_ascii(line)
             IN  IF line # <<>> /\ trimmed = END
                 THEN out
                 ELSE decode_from(input, line_end + 1,
                                  IF line # <<>> THEN out \o decode_uu_line(trimmed)
                                  ELSE out)
        ELSE LET trimmed == uu_trim_ascii(SliceFrom(input, pos))
             IN  IF trimmed # END /\ trimmed # <<>>
                 THEN out \o decode_uu_line(trimmed)
                 ELSE out

\* uu_decoder::decode(input)
decode(input) ==
    LET begin_pos == find_begin_line(input)
    IN  IF begin_pos < 0 THEN <<>> ELSE decode_from(input, begin_pos, <<>>)

\* whether decode(input) meets the subtraction overflow of decode_uu_line
decode_overflows(input) ==
    LET begin_pos == find_begin_line(input)
    IN  begin_pos >= 0 /\ decode_from_overflows(input, begin_pos)

---------------------------------------------------------------------------
(* byte_parser.rs: detection, the structural index, document metadata and  *)
(* text content.                                                           *)

\* &data[..line_end], line_end = memchr(NEWLINE, data).unwrap_or(data.len())
FirstLine(s) ==
    LET line_end == memchr(NEWLINE, s)
    IN  IF line_end < 0 THEN s ELSE Slice(s, 0, line_end)

\* detect_submission_type(data): the type, or "UnknownSubmissionType"
detect_submission_type(s) ==
    LET first_line == FirstLine(s)
    IN  IF contains(first_line, SUBMISSION) THEN "DashedDefault"
        ELSE IF contains(first_line, PRIVACY_MSG) THEN "TabPrivacy"
        ELSE IF contains(first_line, SEC_DOCUMENT) THEN "TabDefault"
        ELSE "UnknownSubmissionType"

\* the zip of all_doc_opens and all_doc_closes, a pair kept when open < close
RECURSIVE zip_doc_positions(_, _)
zip_doc_positions(opens, closes) ==
    IF opens = <<>> \/ closes = <<>> THEN <<>>
    ELSE (IF opens[1] < closes[1] THEN << <<opens[1], closes[1]>> >> ELSE <<>>)
         \o zip_doc_positions(Tail(opens), Tail(closes))

IsIndexWs(b) == b = SPACE \/ b = NEWLINE \/ b = CR

\* the while loop that skips SPACE, NEWLINE and CR from pos
skip_index_ws(s, pos) ==
    LET stop == {q \in pos..(Len(s) - 1) : ~IsIndexWs(At(s, q))}
    IN  IF stop = {} THEN (IF pos < Len(s) THEN Len(s) ELSE pos) ELSE SetMin(stop)

\* one iteration of the loop over all_text_opens: whether a text position is
\* recorded, its end, and the leftover span if one is stored
text_section(s, text_start) ==
    LET text_end_pos == find_tag(s, TEXT_CLOSE, text_start)
        after == text_end_pos + Len(TEXT_CLOSE)
        pos == skip_index_ws(s, after)
        accepted == text_end_pos >= 0 /\ StartsAt(s, DOCUMENT_CLOSE, pos)
        has_leftover ==
            /\ accepted
            /\ pos > after
            /\ \E q \in after..(pos - 1) : ~IsIndexWs(At(s, q))
    IN  [accepted |-> accepted,
         text_end |-> text_end_pos,
         has_leftover |-> has_leftover,
         leftover |-> <<after, pos>>]

RECURSIVE text_sections(_, _, _)
text_sections(s, opens, acc) ==
    IF opens = <<>> THEN acc
    ELSE LET r == text_section(s, opens[1])
         IN  text_sections(s, Tail(opens),
                 [text_positions |->
                      IF r.accepted
                      THEN Append(acc.text_positions, <<opens[1], r.text_end>>)
                      ELSE acc.text_positions,
                  text_leftovers |->
                      IF r.has_leftover
                      THEN Put(acc.text_leftovers, r.text_end, r.leftover)
                      ELSE acc.text_leftovers])

\* build_document_index(data, line_indices)
build_document_index(s) ==
    LET all_doc_opens == find_iter(s, DOCUMENT_OPEN, 0)
        all_doc_closes == find_iter(s, DOCUMENT_CLOSE, 0)
        all_text_opens == find_iter(s, TEXT_OPEN, 0)
        fresh == DocumentIndex_new
        texts == text_sections(s, all_text_opens,
                     [text_positions |-> <<>>, text_leftovers |-> fresh.text_leftovers])
    IN  [document_positions |-> zip_doc_positions(all_doc_opens, all_doc_closes),
         text_positions |-> texts.text_positions,
         header_end |-> IF all_doc_opens # <<>> THEN all_doc_opens[1]
                        ELSE fresh.header_end,
         text_leftovers |-> texts.text_leftovers]

\* the loop of parse_document_metadata over the lines of the slice;
\* cur = <<>> is None, <<key>> is Some(key)
RECURSIVE doc_metadata_lines(_, _, _, _, _)
doc_metadata_lines(slice, ls, k, md, cur) ==
    IF k > Len(ls) THEN md
    ELSE
    LET line == Slice(slice, ls[k][1], ls[k][2])
        tc == parse_tag_content(line)
    IN  IF line # <<>> /\ line[1] = ANGLE_OPEN /\ memchr(ANGLE_CLOSE, line) >= 0
        THEN IF tc.ok
             THEN LET key == ascii_to_lowercase(tc.tag)
                      content == trim_ascii(tc.content)
                  IN  doc_metadata_lines(slice, ls, k + 1,
                          IF content # <<>> THEN Put(md, key, Text(content)) ELSE md,
                          <<key>>)
             ELSE doc_metadata_lines(slice, ls, k + 1, md, cur)
        ELSE IF cur # <<>> /\ Has(md, cur[1]) /\ md[cur[1]].t = "Text" /\ line # <<>>
             THEN doc_metadata_lines(slice, ls, k + 1,
                      Put(md, cur[1],
                          Text(md[cur[1]].v \o <<SPACE>> \o trim_ascii(line))),
                      cur)
             ELSE doc_metadata_lines(slice, ls, k + 1, md, cur)

\* parse_document_metadata(data, start, end)
parse_document_metadata(s, start, end) ==
    LET slice == Slice(s, start, end)
    IN  doc_metadata_lines(slice, index_lines(slice), 1, EmptyDict, <<>>)

\* whether process_text_content(data) hands the content to uu_decoder::decode
\* and decode meets the subtraction overflow
process_text_content_overflows(s) ==
    LET d == trim_ascii_start(s)
    IN  d # <<>> /\ Len(d) >= 5 /\ SubSeq(d, 1, 5) = BEGIN /\ decode_overflows(d)

\* a text processing that trims the content at both ends
process_text_content_trimmed(s) ==
    LET d == trim_ascii(s)
    IN  IF d = <<>> THEN <<>>
        ELSE IF starts_with(d, BEGIN) THEN decode(d)
        ELSE d

\* process_text_content(data)
process_text_content(s) ==
    LET d == trim_ascii_start(s)
    IN  IF d = <<>> THEN <<>>
        ELSE IF Len(d) >= 5 /\ SubSeq(d, 1, 5) = BEGIN THEN decode(d)
        ELSE d

---------------------------------------------------------------------------
(* byte_parser.rs: the header parsers, one line of the header per step.    *)

LOOKAHEAD == 100

Last(q) == q[Len(q)]

Front(q) == SubSeq(q, 1, Len(q) - 1)

\* the match on current_dict.entry(key): a vacant entry takes the value, a List
\* is pushed to, any other value becomes List[existing, value]
entry_insert(d, k, v) ==
    IF ~Has(d, k) THEN Put(d, k, v)
    ELSE IF d[k].t = "List" THEN Put(d, k, List(Append(d[k].v, v)))
    ELSE Put(d, k, List(<<d[k], v>>))

\* the same insertion into the dict on top of the stack (dict_stack.last_mut())
InsertTop(ds, k, v) == [ds EXCEPT ![Len(ds)] = entry_insert(ds[Len(ds)], k, v)]

\* the header's lines: index_lines(&data[..end])
HeaderLines(s, end) == index_lines(Slice(s, 0, end))

\* the look-ahead of parse_dashed_default_header for line i (1-based): whether
\* one of the lines i+1 .. min(i+99, n) parses to the tag "/" + lowercase_tag
has_closing_tag(s, hl, i, lowercase_tag) ==
    LET search_end == IF (i - 1) + LOOKAHEAD < Len(hl) THEN (i - 1) + LOOKAHEAD
                      ELSE Len(hl)
    IN  \E j \in (i + 1)..search_end :
            LET next == parse_tag_content(Slice(s, hl[j][1], hl[j][2]))
            IN  next.ok /\ ascii_to_lowercase(next.tag) = <<SLASH>> \o lowercase_tag

\* one iteration of the loop of parse_dashed_default_header, on header line i
dashed_line(s, hl, i, ts, ds) ==
    LET line == Slice(s, hl[i][1], hl[i][2])
        tc == parse_tag_content(line)
        lowercase_tag == ascii_to_lowercase(tc.tag)
        same == [tag_stack |-> ts, dict_stack |-> ds]
    IN  IF line = <<>> \/ memchr(ANGLE_CLOSE, line) < 0 THEN same
        ELSE IF ~tc.ok THEN same
        ELSE IF lowercase_tag # <<>> /\ lowercase_tag[1] = SLASH
        THEN IF ts # <<>> /\ Last(ts) = Tail(lowercase_tag)
             THEN [tag_stack |-> Front(ts), dict_stack |-> Front(ds)]
             ELSE same
        ELSE IF has_closing_tag(s, hl, i, lowercase_tag)
        THEN [tag_stack |-> Append(ts, lowercase_tag),
              dict_stack |-> Append(InsertTop(ds, lowercase_tag, Dict(EmptyDict)),
                                    EmptyDict)]
        ELSE IF trim_ascii(tc.content) # <<>>
        THEN [tag_stack |-> ts,
              dict_stack |-> InsertTop(ds, lowercase_tag, Text(trim_ascii(tc.content)))]
        ELSE same

IsUpper(b) == b >= 65 /\ b <= 90

\* the while loop that moves pos to the next NEWLINE below end
skip_to_newline(s, end, pos) ==
    LET stop == {q \in pos..(end - 1) : At(s, q) = NEWLINE}
    IN  IF stop = {} THEN (IF pos < end THEN end ELSE pos) ELSE SetMin(stop)

\* the inner loop of the privacy preamble: the lines collected from line_start
\* on, each ended by a NEWLINE below end, up to the line that breaks the loop
RECURSIVE privacy_lines(_, _, _, _)
privacy_lines(s, end, line_start, acc) ==
    LET pos == skip_to_newline(s, end, line_start)
        line == Slice(s, line_start, pos)
    IN  IF pos >= end THEN acc
        ELSE IF memchr(ANGLE_OPEN, line) >= 0 /\ \E q \in 1..Len(line) : IsUpper(line[q])
        THEN acc
        ELSE privacy_lines(s, end, pos + 1, Append(acc, line))

\* each line followed by NEWLINE
RECURSIVE join_with_newlines(_)
join_with_newlines(ls) ==
    IF ls = <<>> THEN <<>> ELSE ls[1] \o <<NEWLINE>> \o join_with_newlines(Tail(ls))

\* the preamble of parse_tab_header: header_metadata before the line loop
tab_preamble(s, end, submission_type) ==
    LET start_pos == find_tag(Slice(s, 0, end), PRIVACY_MSG, 0)
        pos == skip_to_newline(s, end, start_pos + Len(PRIVACY_MSG)) + 1
        privacy_msg == privacy_lines(s, end, pos, <<>>)
    IN  IF submission_type = "TabPrivacy" /\ start_pos >= 0 /\ privacy_msg # <<>>
        THEN Put(EmptyDict, KEY_PRIVACY, Text(join_with_newlines(privacy_msg)))
        ELSE EmptyDict

\* line.iter().take_while(|b| b == SPACE || b == '\t').count()
indent_of(line) ==
    LET stop == {i \in 1..Len(line) : ~(line[i] = SPACE \/ line[i] = TAB)}
    IN  IF stop = {} THEN Len(line) ELSE SetMin(stop) - 1

\* the (tag, text) of a tab header line, ok = FALSE where the loop continues
tab_tag_text(line) ==
    LET tc == parse_tag_content(line)
        lowercase_tag == ascii_to_lowercase(tc.tag)
        pos == memchr(COLON, line)
    IN  IF memchr(ANGLE_CLOSE, line) >= 0
        THEN IF tc.ok /\ ~(lowercase_tag # <<>> /\ lowercase_tag[1] = SLASH)
             THEN [ok |-> TRUE, tag |-> lowercase_tag, text |-> tc.content]
             ELSE [ok |-> FALSE, tag |-> <<>>, text |-> <<>>]
        ELSE IF pos >= 0
        THEN [ok |-> TRUE,
              tag |-> ascii_to_lowercase(Slice(line, 0, pos)),
              text |-> IF pos + 1 < Len(line) THEN SliceFrom(line, pos + 1) ELSE <<>>]
        ELSE [ok |-> FALSE, tag |-> <<>>, text |-> <<>>]

\* a pop loop that pops the indent stack alone
RECURSIVE pop_indents_keep_dicts(_, _, _)
pop_indents_keep_dicts(is, ds, indent) ==
    IF Len(is) > 1 /\ is[Len(is)] >= indent
    THEN pop_indents_keep_dicts(SubSeq(is, 1, Len(is) - 1), ds, indent)
    ELSE [tag_stack |-> is, dict_stack |-> ds]

\* while indent_stack.len() > 1 && indent_stack.last() >= indent: pop both stacks
RECURSIVE pop_indents(_, _, _)
pop_indents(is, ds, indent) ==
    IF Len(is) > 1 /\ Last(is) >= indent
    THEN pop_indents(Front(is), Front(ds), indent)
    ELSE [tag_stack |-> is, dict_stack |-> ds]

\* one iteration of the line loop of parse_tab_header, on header line i
tab_line(s, hl, i, is, ds) ==
    LET line == Slice(s, hl[i][1], hl[i][2])
        indent == indent_of(line)
        tt == tab_tag_text(line)
        popped == pop_indents(is, ds, indent)
        trimmed_text == trim_ascii(tt.text)
    IN  IF line = <<>> \/ ~tt.ok THEN [tag_stack |-> is, dict_stack |-> ds]
        ELSE IF trimmed_text # <<>>
        THEN [tag_stack |-> popped.tag_stack,
              dict_stack |-> InsertTop(popped.dict_stack, tt.tag, Text(trimmed_text))]
        ELSE [tag_stack |-> Append(popped.tag_stack, indent),
              dict_stack |-> Append(InsertTop(popped.dict_stack, tt.tag, Dict(EmptyDict)),
                                    EmptyDict)]

\* the line loop of parse_dashed_default_header from line i on
RECURSIVE dashed_loop(_, _, _, _, _)
dashed_loop(s, hl, i, ts, ds) ==
    IF i > Len(hl) THEN ds
    ELSE LET r == dashed_line(s, hl, i, ts, ds)
         IN  dashed_loop(s, hl, i + 1, r.tag_stack, r.dict_stack)

\* parse_dashed_default_header(data, end)
parse_dashed_default_header(s, end) ==
    dashed_loop(s, HeaderLines(s, end), 1, <<>>, <<EmptyDict>>)[1]

\* the line loop of parse_tab_header from line i on
RECURSIVE tab_loop(_, _, _, _, _)
tab_loop(s, hl, i, is, ds) ==
    IF i > Len(hl) THEN ds
    ELSE LET r == tab_line(s, hl, i, is, ds)
         IN  tab_loop(s, hl, i + 1, r.tag_stack, r.dict_stack)

\* parse_tab_header(data, end, submission_type)
parse_tab_header(s, end, submission_type) ==
    tab_loop(s, HeaderLines(s, end), 1, <<0>>,
             <<tab_preamble(s, end, submission_type)>>)[1]

---------------------------------------------------------------------------
(* byte_parser.rs: one document of the loop of parse_sgml_bytes.           *)

\* text_position_map: start -> end of every text position
text_position_map(text_positions) ==
    [st \in {text_positions[k][1] : k \in 1..Len(text_positions)} |->
        LET ks == {k \in 1..Len(text_positions) : text_positions[k][1] = st}
        IN  text_positions[SetMax(ks)][2]]

\* the text range of the document (doc_start, doc_end): <<>> for None
text_range(s, idx, doc_start, doc_end) ==
    LET map == text_position_map(idx.text_positions)
        text_start_pos == find_tag(s, TEXT_OPEN, doc_start)
    IN  IF text_start_pos >= 0 /\ text_start_pos < doc_end /\ text_start_pos \in DOMAIN map
        THEN <<text_start_pos, map[text_start_pos]>>
        ELSE <<>>

\* the bytes handed to process_text_content: the text content, joined with the
\* leftover span stored for text_end when there is one
text_bytes(s, idx, text_start, text_end) ==
    LET text_content == Slice(s, text_start + Len(TEXT_OPEN), text_end)
    IN  IF text_end \in DOMAIN idx.text_leftovers
        THEN text_content \o Slice(s, idx.text_leftovers[text_end][1],
                                      idx.text_leftovers[text_end][2])
        ELSE text_content

\* a loop body that pushes the document metadata before it looks for the text
process_document_meta_first(s, idx, doc_start, doc_end) ==
    LET tr == text_range(s, idx, doc_start, doc_end)
    IN  [push_meta |-> TRUE,
         push_doc |-> tr # <<>>,
         meta |-> parse_document_metadata(s, doc_start + Len(DOCUMENT_OPEN),
                      IF tr = <<>> THEN doc_end ELSE tr[1]),
         doc |-> IF tr = <<>> THEN <<>>
                 ELSE process_text_content(text_bytes(s, idx, tr[1], tr[2])),
         overflow |-> tr # <<>>
                      /\ process_text_content_overflows(text_bytes(s, idx, tr[1], tr[2]))]

\* the body of the loop over document_positions: what is pushed, if anything,
\* and whether the decoding of the text meets the subtraction overflow
process_document(s, idx, doc_start, doc_end) ==
    LET tr == text_range(s, idx, doc_start, doc_end)
    IN  IF tr = <<>>
        THEN [push_meta |-> FALSE, push_doc |-> FALSE, meta |-> EmptyDict, doc |-> <<>>,
              overflow |-> FALSE]
        ELSE [push_meta |-> TRUE,
              push_doc |-> TRUE,
              meta |-> parse_document_metadata(s, doc_start + Len(DOCUMENT_OPEN), tr[1]),
              doc |-> process_text_content(text_bytes(s, idx, tr[1], tr[2])),
              overflow |-> process_text_content_overflows(
                               text_bytes(s, idx, tr[1], tr[2]))]

---------------------------------------------------------------------------
(* The inputs.  An input is put together from lines (header families) or   *)
(* from document blocks (document family) of a small pool; the bounds are  *)
(* the number of pool elements an input may hold.                          *)

MaxHeaderLines == 4
MaxDocs == 3

NL == <<NEWLINE>>

\* every sequence of at most n elements of the pool (a tuple)
SeqsUpTo(pool, n) == UNION {[1..k -> 1..Len(pool)] : k \in 0..n}

\* the lines picked, each ended by a newline
RECURSIVE JoinLines(_, _)
JoinLines(pool, pick) ==
    IF pick = <<>> THEN <<>> ELSE pool[pick[1]] \o NL \o JoinLines(pool, Tail(pick))

\* the blocks picked, one after the other
RECURSIVE Concat(_, _)
Concat(pool, pick) ==
    IF pick = <<>> THEN <<>> ELSE pool[pick[1]] \o Concat(pool, Tail(pick))

LeafA == <<60, 65, 62, 118>>                   \* "<A>v"
TagTypeA == <<60, 84, 89, 80, 69, 62, 97>>     \* "<TYPE>a"
TagTypeB == <<60, 84, 89, 80, 69, 62, 98>>     \* "<TYPE>b"

DetectFirstLines ==
    << SUBMISSION,
       <<SPACE>> \o SUBMISSION,
       SEC_DOCUMENT,
       <<120>> \o SEC_DOCUMENT,
       SEC_DOCUMENT \o SUBMISSION,
       PRIVACY_MSG,
       <<60, 79, 84, 72, 69, 82, 62>>,         \* "<OTHER>"
       <<>> >>

DashedPool ==
    << LeafA,
       <<60, 66, 62>>,                         \* "<B>"
       <<60, 47, 66, 62>>,                     \* "</B>"
       <<60, 67, 62>>,                         \* "<C>"
       <<60, 47, 67, 62>> >>                   \* "</C>"

TabPool ==
    << <<60, 66, 62>>,                         \* "<B>"
       <<32, 60, 67, 62, 119>>,                \* " <C>w"
       <<32, 60, 68, 62>>,                     \* " <D>"
       <<32, 32, 60, 69, 62, 117>>,            \* "  <E>u"
       <<107, 58, 32, 118>> >>                 \* "k: v"

DocPool ==
    << \* a complete document
       DOCUMENT_OPEN \o NL \o TagTypeA \o NL \o TEXT_OPEN \o NL \o <<120>> \o NL
           \o TEXT_CLOSE \o NL \o DOCUMENT_CLOSE \o NL,
       \* a document without a text block
       DOCUMENT_OPEN \o NL \o TagTypeB \o NL \o DOCUMENT_CLOSE \o NL,
       \* a text block whose close is followed by "z"
       DOCUMENT_OPEN \o NL \o TEXT_OPEN \o NL \o <<121>> \o NL
           \o TEXT_CLOSE \o <<122>> \o NL \o DOCUMENT_CLOSE \o NL,
       \* a document and a text block that are never closed
       DOCUMENT_OPEN \o NL \o TEXT_OPEN \o NL \o <<119>> \o NL,
       \* closing tags alone
       TEXT_CLOSE \o NL \o DOCUMENT_CLOSE \o NL,
       \* a second complete document
       DOCUMENT_OPEN \o NL \o TagTypeB \o NL \o TEXT_OPEN \o NL \o <<121>> \o NL
           \o TEXT_CLOSE \o NL \o DOCUMENT_CLOSE \o NL >>

DetectInputs ==
    {<<>>}
    \cup {DetectFirstLines[k] : k \in 1..Len(DetectFirstLines)}
    \cup {DetectFirstLines[k] \o NL \o LeafA \o NL \o DocPool[1]
              : k \in 1..Len(DetectFirstLines)}

DashedInputs ==
    {SUBMISSION \o NL \o JoinLines(DashedPool, pick) \o DOCUMENT_OPEN \o NL
        : pick \in SeqsUpTo(DashedPool, MaxHeaderLines)}

TabInputs ==
    {first \o NL \o JoinLines(TabPool, pick) \o DOCUMENT_OPEN \o NL
        : first \in {SEC_DOCUMENT, PRIVACY_MSG},
          pick \in SeqsUpTo(TabPool, MaxHeaderLines)}

DocInputs ==
    {SUBMISSION \o NL \o LeafA \o NL \o Concat(DocPool, pick)
        : pick \in SeqsUpTo(DocPool, MaxDocs)}

\* scenario S1: a DashedDefault submission with two header leaves and one
\* document whose text block is the line "Hello."
S1_ACCESSION == <<60, 65, 67, 67, 69, 83, 83, 73, 79, 78, 45, 78, 85, 77, 66, 69, 82, 62, 48, 48, 48, 49, 45, 50, 51, 45, 52, 53, 54>>   \* "<ACCESSION-NUMBER>0001-23-456"
S1_TYPE == <<60, 84, 89, 80, 69, 62, 49, 48, 45, 75>>   \* "<TYPE>10-K"
S1_SEQUENCE == <<60, 83, 69, 81, 85, 69, 78, 67, 69, 62, 49>>   \* "<SEQUENCE>1"
S1_FILENAME == <<60, 70, 73, 76, 69, 78, 65, 77, 69, 62, 112, 114, 105, 109, 97, 114, 121, 46, 104, 116, 109>>   \* "<FILENAME>primary.htm"
S1_HELLO == <<72, 101, 108, 108, 111, 46>>   \* "Hello."
S1_SUBMISSION_CLOSE == <<60, 47, 83, 85, 66, 77, 73, 83, 83, 73, 79, 78, 62>>   \* "</SUBMISSION>"

S1Input ==
    SUBMISSION \o NL \o S1_ACCESSION \o NL \o S1_TYPE \o NL
    \o DOCUMENT_OPEN \o NL \o S1_TYPE \o NL \o S1_SEQUENCE \o NL \o S1_FILENAME \o NL
    \o TEXT_OPEN \o NL \o S1_HELLO \o NL \o TEXT_CLOSE \o NL
    \o DOCUMENT_CLOSE \o NL \o S1_SUBMISSION_CLOSE \o NL

\* scenario S3: a TabPrivacy submission whose marker line is followed by three
\* lines without a tag and then a block of tags
S3_LINE1 == <<80, 114, 111, 99, 45, 84, 121, 112, 101, 58, 32, 50, 48, 48, 49, 44, 77, 73, 67, 45, 67, 76, 69, 65, 82>>   \* "Proc-Type: 2001,MIC-CLEAR"
S3_LINE2 == <<77, 73, 67, 45, 73, 110, 102, 111, 58, 32, 82, 83, 65, 45, 77, 68, 53, 44, 82, 83, 65, 44>>   \* "MIC-Info: RSA-MD5,RSA,"
S3_LINE3 == <<32, 77, 70, 103, 119, 67, 103, 89, 69, 86, 81, 103, 66, 65, 81>>   \* " MFgwCgYEVQgBAQ"
S3_HEADER == <<60, 83, 69, 67, 45, 72, 69, 65, 68, 69, 82, 62, 104, 46, 115, 103, 109, 108>>   \* "<SEC-HEADER>h.sgml"
S3_TYPE == <<32, 60, 84, 89, 80, 69, 62, 49, 48, 45, 75>>   \* " <TYPE>10-K"

S3Input ==
    PRIVACY_MSG \o NL \o S3_LINE1 \o NL \o S3_LINE2 \o NL \o S3_LINE3 \o NL
    \o S3_HEADER \o NL \o S3_TYPE \o NL \o DOCUMENT_OPEN \o NL

\* a TabDefault header with an indented colon line, an indented tag line and
\* a line that holds ">" without beginning with "<"
TC_FIRST == <<60, 83, 69, 67, 45, 68, 79, 67, 85, 77, 69, 78, 84, 62, 100, 46, 116, 120, 116>>   \* "<SEC-DOCUMENT>d.txt"
TC_NAME == <<9, 78, 65, 77, 69, 58, 9, 70, 79, 79>>   \* "\tNAME:\tFOO"
TC_TYPE == <<32, 60, 84, 89, 80, 69, 62, 49, 48, 45, 75>>   \* " <TYPE>10-K"
TC_COMPARE == <<97, 32, 62, 32, 98, 58, 32, 99>>   \* "a > b: c"

TabColonInput ==
    TC_FIRST \o NL \o TC_NAME \o NL \o TC_TYPE \o NL \o TC_COMPARE \o NL
    \o DOCUMENT_OPEN \o NL

\* documents whose text block is wrapped in <XML> or <PDF>, the second one
\* around a uuencoded payload
WRAP_XML_OPEN == <<60, 88, 77, 76, 62>>   \* "<XML>"
WRAP_XML_CLOSE == <<60, 47, 88, 77, 76, 62>>   \* "</XML>"
WRAP_PDF_OPEN == <<60, 80, 68, 70, 62>>   \* "<PDF>"
WRAP_PDF_CLOSE == <<60, 47, 80, 68, 70, 62>>   \* "</PDF>"
WRAP_XBRL_OPEN == <<60, 88, 66, 82, 76, 62>>   \* "<XBRL>"
WRAP_XBRL_CLOSE == <<60, 47, 88, 66, 82, 76, 62>>   \* "</XBRL>"

WrappedDocument(open, body, close) ==
    SUBMISSION \o NL \o LeafA \o NL
    \o DOCUMENT_OPEN \o NL \o TagTypeA \o NL \o TEXT_OPEN \o NL
    \o open \o NL \o body \o close \o NL
    \o TEXT_CLOSE \o NL \o DOCUMENT_CLOSE \o NL

WrapperInputs ==
    { WrappedDocument(WRAP_XML_OPEN, <<120>> \o NL, WRAP_XML_CLOSE),
      WrappedDocument(WRAP_XBRL_OPEN, <<120>> \o NL, WRAP_XBRL_CLOSE),
      WrappedDocument(WRAP_PDF_OPEN,
                      <<98, 101, 103, 105, 110, 32, 54, 52, 52, 32, 102, 10, 35, 48, 52, 41, 35, 10, 96, 10, 101, 110, 100, 10>>,   \* "begin 644 f\n#04)#\n`\nend\n"
                      WRAP_PDF_CLOSE) }

\* a document whose metadata block has a tag line without a value, followed
\* by a continuation line, and a tag line with a value and a continuation
ET_TYPE == <<60, 84, 89, 80, 69, 62>>   \* "<TYPE>"
ET_VALUE == <<49, 48, 45, 75>>   \* "10-K"
ET_DESCRIPTION == <<60, 68, 69, 83, 67, 82, 73, 80, 84, 73, 79, 78, 62, 100>>   \* "<DESCRIPTION>d"
ET_MORE == <<32, 109, 111, 114, 101>>   \* " more"

EmptyTagInput ==
    SUBMISSION \o NL \o LeafA \o NL
    \o DOCUMENT_OPEN \o NL \o ET_TYPE \o NL \o ET_VALUE \o NL
    \o ET_DESCRIPTION \o NL \o ET_MORE \o NL
    \o TEXT_OPEN \o NL \o <<120>> \o NL \o TEXT_CLOSE \o NL \o DOCUMENT_CLOSE \o NL

\* a DashedDefault header whose block <B> is closed `gap` lines after its
\* opening tag: the leaf <A>v, then empty lines, then </B>
FarCloseInput(gap) ==
    SUBMISSION \o NL \o DashedPool[2] \o NL \o LeafA \o NL
    \o [k \in 1..(gap - 2) |-> NEWLINE]
    \o DashedPool[3] \o NL \o DOCUMENT_OPEN \o NL

LookaheadInputs == {FarCloseInput(LOOKAHEAD - 1), FarCloseInput(LOOKAHEAD)}

\* values and a text block with form feeds at their ends
FF_LEAF == <<60, 65, 62, 12, 118, 12>>   \* "<A>\x0cv\x0c"
FF_TYPE == <<60, 84, 89, 80, 69, 62, 12, 97>>   \* "<TYPE>\x0ca"
FF_TEXT == <<12, 10, 72, 101, 108, 108, 111, 46, 10>>   \* "\x0c\nHello.\n"
FF_TAB_LEAF == <<107, 58, 32, 12, 118, 12>>   \* "k: \x0cv\x0c"
FF_TAB_BLOCK == <<60, 66, 62, 12>>   \* "<B>\x0c"

FormFeedInputs ==
    { SUBMISSION \o NL \o FF_LEAF \o NL
          \o DOCUMENT_OPEN \o NL \o FF_TYPE \o NL \o TEXT_OPEN \o FF_TEXT
          \o TEXT_CLOSE \o NL \o DOCUMENT_CLOSE \o NL,
      SEC_DOCUMENT \o NL \o FF_TAB_BLOCK \o NL \o FF_TAB_LEAF \o NL
          \o DOCUMENT_OPEN \o NL }

\* documents whose text block is uuencoded, the encoded or the length byte of
\* a line being below 32
UU_LOW_BYTE == <<98, 101, 103, 105, 110, 32, 54, 52, 52, 32, 102, 10, 35, 48, 1, 41, 35, 10, 101, 110, 100, 10>>   \* "begin 644 f\n#0\x01)#\nend\n"
UU_LOW_LENGTH == <<98, 101, 103, 105, 110, 32, 54, 52, 52, 32, 102, 10, 35, 48, 52, 41, 35, 10, 0, 10, 101, 110, 100, 10>>   \* "begin 644 f\n#04)#\n\x00\nend\n"
UU_WELL_FORMED == <<98, 101, 103, 105, 110, 32, 54, 52, 52, 32, 102, 10, 35, 48, 52, 41, 35, 10, 96, 10, 101, 110, 100, 10>>   \* "begin 644 f\n#04)#\n`\nend\n"

UUTextInputs ==
    { SUBMISSION \o NL \o DOCUMENT_OPEN \o NL \o TagTypeA \o NL \o TEXT_OPEN \o NL
          \o body \o TEXT_CLOSE \o NL \o DOCUMENT_CLOSE \o NL
        : body \in {UU_LOW_BYTE, UU_LOW_LENGTH, UU_WELL_FORMED} }

ScenarioInputs ==
    {S1Input, S3Input, TabColonInput, EmptyTagInput}
    \cup WrapperInputs \cup LookaheadInputs \cup FormFeedInputs \cup UUTextInputs

BytesInputs ==
    DetectInputs \cup DashedInputs \cup TabInputs \cup DocInputs \cup ScenarioInputs

---------------------------------------------------------------------------
(* parse_sgml_bytes as a state machine.                                    *)

Idle ==
    /\ lines = <<>>
    /\ stype = ""
    /\ index = DocumentIndex_new
    /\ hdr_i = 0
    /\ tag_stack = <<>>
    /\ dict_stack = <<>>
    /\ metadata = EmptyDict
    /\ doc_i = 0
    /\ doc_metadata_list = <<>>
    /\ documents = <<>>
    /\ result = ""
    /\ key_order = <<>>
    /\ hist = <<>>

InitBytes ==
    /\ prog = "bytes"
    /\ data \in BytesInputs
    /\ pc = "start"
    /\ Idle

\* if data.is_empty() { return Err(InvalidContent) }
BCheckEmpty ==
    /\ prog = "bytes" /\ pc = "start"
    /\ IF data = <<>>
       THEN pc' = "done" /\ result' = "InvalidContent"
       ELSE pc' = "detect" /\ result' = result
    /\ UNCHANGED <<prog, data, lines, stype, index, hdr_i, tag_stack, dict_stack,
                   metadata, doc_i, doc_metadata_list, documents, key_order, hist>>

\* let submission_type = detect_submission_type(data)?
BDetect ==
    /\ prog = "bytes" /\ pc = "detect"
    /\ LET st == detect_submission_type(data)
       IN  IF st = "UnknownSubmissionType"
           THEN pc' = "done" /\ result' = st /\ stype' = stype
           ELSE pc' = "index" /\ result' = result /\ stype' = st
    /\ UNCHANGED <<prog, data, lines, index, hdr_i, tag_stack, dict_stack,
                   metadata, doc_i, doc_metadata_list, documents, key_order, hist>>

\* index_lines(data), build_document_index(data, &lines)
BIndex ==
    /\ prog = "bytes" /\ pc = "index"
    /\ lines' = index_lines(data)
    /\ index' = build_document_index(data)
    /\ pc' = "header"
    /\ UNCHANGED <<prog, data, stype, hdr_i, tag_stack, dict_stack,
                   metadata, doc_i, doc_metadata_list, documents, result, key_order, hist>>

\* the entry of parse_dashed_default_header or parse_tab_header: the stacks
\* before the first line
BHeaderStart ==
    /\ prog = "bytes" /\ pc = "header"
    /\ IF stype = "DashedDefault"
       THEN /\ tag_stack' = <<>>
            /\ dict_stack' = <<EmptyDict>>
       ELSE /\ tag_stack' = <<0>>
            /\ dict_stack' = <<tab_preamble(data, index.header_end, stype)>>
    /\ hdr_i' = 1
    /\ pc' = "hloop"
    /\ UNCHANGED <<prog, data, lines, stype, index,
                   metadata, doc_i, doc_metadata_list, documents, result, key_order, hist>>

\* one iteration of the line loop of parse_dashed_default_header
BDashedLine ==
    /\ prog = "bytes" /\ pc = "hloop" /\ stype = "DashedDefault"
    /\ LET hl == HeaderLines(data, index.header_end)
       IN  /\ hdr_i <= Len(hl)
           /\ LET r == dashed_line(data, hl, hdr_i, tag_stack, dict_stack)
              IN  tag_stack' = r.tag_stack /\ dict_stack' = r.dict_stack
    /\ hdr_i' = hdr_i + 1
    /\ UNCHANGED <<prog, data, pc, lines, stype, index,
                   metadata, doc_i, doc_metadata_list, documents, result, key_order, hist>>

\* one iteration of the line loop of parse_tab_header
BTabLine ==
    /\ prog = "bytes" /\ pc = "hloop" /\ stype # "DashedDefault"
    /\ LET hl == HeaderLines(data, index.header_end)
       IN  /\ hdr_i <= Len(hl)
           /\ LET r == tab_line(data, hl, hdr_i, tag_stack, dict_stack)
              IN  tag_stack' = r.tag_stack /\ dict_stack' = r.dict_stack
    /\ hdr_i' = hdr_i + 1
    /\ UNCHANGED <<prog, data, pc, lines, stype, index,
                   metadata, doc_i, doc_metadata_list, documents, result, key_order, hist>>

\* the header parser returns: dict_stack.remove(0), or an empty map
BHeaderEnd ==
    /\ prog = "bytes" /\ pc = "hloop"
    /\ hdr_i > Len(HeaderLines(data, index.header_end))
    /\ metadata' = IF dict_stack = <<>> THEN EmptyDict ELSE dict_stack[1]
    /\ doc_i' = 1
    /\ pc' = "docs"
    /\ UNCHANGED <<prog, data, lines, stype, index, hdr_i, tag_stack, dict_stack,
                   doc_metadata_list, documents, result, key_order, hist>>

\* one iteration of the loop over doc_index.document_positions; when the text
\* is uuencoded and a line of it holds a byte below 32, the subtraction of
\* decode_uu_line overflows: a build with overflow checks panics, a build
\* without wraps and goes on
BDocument ==
    /\ prog = "bytes" /\ pc = "docs"
    /\ doc_i <= Len(index.document_positions)
    /\ LET dp == index.document_positions[doc_i]
           r == process_document(data, index, dp[1], dp[2])
       IN  \/ /\ r.overflow
              /\ pc' = "done" /\ result' = "panic"
              /\ UNCHANGED <<doc_metadata_list, documents, doc_i>>
           \/ /\ doc_metadata_list' = IF r.push_meta
                                      THEN Append(doc_metadata_list, Dict(r.meta))
                                      ELSE doc_metadata_list
              /\ documents' = IF r.push_doc THEN Append(documents, r.doc) ELSE documents
              /\ doc_i' = doc_i + 1
              /\ UNCHANGED <<pc, result>>
    /\ UNCHANGED <<prog, data, lines, stype, index, hdr_i, tag_stack, dict_stack,
                   metadata, key_order, hist>>

\* metadata.insert("documents", List(doc_metadata_list)); Ok((metadata, documents))
BFinish ==
    /\ prog = "bytes" /\ pc = "docs"
    /\ doc_i > Len(index.document_positions)
    /\ metadata' = Put(metadata, KEY_DOCUMENTS, List(doc_metadata_list))
    /\ result' = "Ok"
    /\ pc' = "done"
    /\ UNCHANGED <<prog, data, lines, stype, index, hdr_i, tag_stack, dict_stack,
                   doc_i, doc_metadata_list, documents, key_order, hist>>

NextBytes ==
    \/ BCheckEmpty
    \/ BDetect
    \/ BIndex
    \/ BHeaderStart
    \/ BDashedLine
    \/ BTabLine
    \/ BHeaderEnd
    \/ BDocument
    \/ BFinish

SpecBytes == InitBytes /\ [][NextBytes]_vars

---------------------------------------------------------------------------
(* Properties of parse_sgml_bytes.                                         *)

BytesOk == prog = "bytes" /\ pc = "done" /\ result = "Ok"

\* the document blocks of the index that have a text range, in index order
AcceptedBlocks(s, idx) ==
    SelectSeq(idx.document_positions,
              LAMBDA dp : text_range(s, idx, dp[1], dp[2]) # <<>>)

\* the metadata Dict of the block dp, read between its open tag and its text
BlockMetadata(s, idx, dp) ==
    Dict(parse_document_metadata(s, dp[1] + Len(DOCUMENT_OPEN),
                                 text_range(s, idx, dp[1], dp[2])[1]))

\* the payload of the block dp
BlockPayload(s, idx, dp) ==
    LET tr == text_range(s, idx, dp[1], dp[2])
    IN  process_text_content(text_bytes(s, idx, tr[1], tr[2]))

\* C1: whenever parse_sgml_bytes returns Ok, metadata["documents"] is a List
\* with one entry per returned document; entry i and document i come from the
\* same document block, the i-th block with an accepted text span in source
\* order, and a block without one adds to neither list.  While the loop runs
\* the two lists have the same length.
C1_DocumentsParallel ==
    prog = "bytes" =>
        /\ Len(doc_metadata_list) = Len(documents)
        /\ BytesOk =>
              LET blocks == AcceptedBlocks(data, index)
                  entry == metadata[KEY_DOCUMENTS]
              IN  /\ Has(metadata, KEY_DOCUMENTS)
                  /\ entry.t = "List"
                  /\ Len(entry.v) = Len(documents)
                  /\ Len(documents) = Len(blocks)
                  /\ \A i \in 1..Len(blocks) :
                        /\ entry.v[i] = BlockMetadata(data, index, blocks[i])
                        /\ documents[i] = BlockPayload(data, index, blocks[i])

\* C1 witness: an Ok result with two different documents and a block of the
\* index that has no accepted text span
C1_Witness ==
    /\ BytesOk
    /\ Len(documents) = 2
    /\ documents[1] # documents[2]
    /\ metadata[KEY_DOCUMENTS].v[1] # metadata[KEY_DOCUMENTS].v[2]
    /\ Len(index.document_positions) > Len(documents)

\* the value stored first under a key: the value, or the head of the List
FirstValue(v) == IF v.t = "List" /\ v.v # <<>> THEN v.v[1] ELSE v

KEY_A == <<97>>
KEY_B == <<98>>

\* a dashed header that opens with the block <B> holding the leaf <A>v
BlockWithLeaf ==
    SUBMISSION \o NL \o <<60, 66, 62>> \o NL \o LeafA \o NL \o <<60, 47, 66, 62>> \o NL

\* C5: when parse_dashed_default_header has read a header that opens with the
\* block <B><A>v</B>, the Dict stored under "b" holds the leaf a -> v that
\* appeared inside the block.
C5_NestedDictHoldsLeaf ==
    (/\ prog = "bytes"
     /\ pc \in {"docs", "done"}
     /\ stype = "DashedDefault"
     /\ starts_with(data, BlockWithLeaf))
    => /\ Has(metadata, KEY_B)
       /\ FirstValue(metadata[KEY_B]).t = "Dict"
       /\ Has(FirstValue(metadata[KEY_B]).v, KEY_A)
       /\ FirstValue(metadata[KEY_B]).v[KEY_A] = Text(<<118>>)

\* the dialect whose marker the first line begins with
DialectByPrefix(s) ==
    LET first_line == FirstLine(s)
    IN  IF starts_with(first_line, SUBMISSION) THEN "DashedDefault"
        ELSE IF starts_with(first_line, PRIVACY_MSG) THEN "TabPrivacy"
        ELSE IF starts_with(first_line, SEC_DOCUMENT) THEN "TabDefault"
        ELSE "UnknownSubmissionType"

\* C8: once parse_sgml_bytes has detected the dialect of a non-empty input, the
\* dialect is the one whose marker the first line begins with, and an input
\* whose first line begins with no marker has ended with UnknownSubmissionType
\* without metadata or documents.
C8_DialectByPrefix ==
    (prog = "bytes" /\ data # <<>> /\ pc \notin {"start", "detect"})
    => IF DialectByPrefix(data) = "UnknownSubmissionType"
       THEN /\ pc = "done"
            /\ result = "UnknownSubmissionType"
            /\ metadata = EmptyDict
            /\ documents = <<>>
       ELSE stype = DialectByPrefix(data)

\* C10: once the structural index is built, header_end is the offset of the
\* first <DOCUMENT>, or the length of the buffer when there is none.
C10_HeaderEnd ==
    (prog = "bytes" /\ pc \in {"header", "hloop", "docs"})
    => index.header_end =
           (IF find_tag(data, DOCUMENT_OPEN, 0) >= 0
            THEN find_tag(data, DOCUMENT_OPEN, 0)
            ELSE Len(data))

---------------------------------------------------------------------------
(* sgml_parser.rs: the line-based parser.  A String is the sequence of its *)
(* bytes; the inputs are ASCII, where a char is a byte, to_lowercase is    *)
(* the ASCII lower case and every byte offset is a char boundary.          *)

\* the ASCII bytes with the Unicode property White_Space, which str::trim removes
IsStrWs(b) == b \in {9, 10, 11, 12, 13, 32}

str_trim_start(s) ==
    LET keep == {i \in 1..Len(s) : ~IsStrWs(s[i])}
    IN  IF keep = {} THEN <<>> ELSE SubSeq(s, SetMin(keep), Len(s))

str_trim(s) ==
    LET keep == {i \in 1..Len(s) : ~IsStrWs(s[i])}
    IN  IF keep = {} THEN <<>> ELSE SubSeq(s, SetMin(keep), SetMax(keep))

\* a split that yields the whole string as one piece
str_lines_one_piece(s) == <<s>>

\* str::lines: the pieces ended by "\n", a "\r" before the "\n" removed, and
\* the rest after the last "\n" when it is not empty
str_lines(s) ==
    LET nls == SortedSeq({p \in 0..(Len(s) - 1) : At(s, p) = NEWLINE})
        n == Len(nls)
        line_start(k) == IF k = 1 THEN 0 ELSE nls[k - 1] + 1
        ended == [k \in 1..n |->
                     Slice(s, line_start(k),
                           IF nls[k] > line_start(k) /\ At(s, nls[k] - 1) = CR
                           THEN nls[k] - 1 ELSE nls[k])]
    IN  AsSeq(ended, n)
        \o (IF line_start(n + 1) < Len(s) THEN <<SliceFrom(s, line_start(n + 1))>>
            ELSE <<>>)

\* lines.join("\n")
RECURSIVE str_join(_)
str_join(ls) ==
    IF ls = <<>> THEN <<>>
    ELSE IF Len(ls) = 1 THEN ls[1]
    ELSE ls[1] \o NL \o str_join(Tail(ls))

\* the slice lines[a..b] of a vector, 0-based, b excluded
VecSlice(v, a, b) == SubSeq(v, a + 1, b)

SUBMISSION_TYPE_DASHED == "dashed-default"
SUBMISSION_TYPE_PRIVACY == "tab-privacy"
SUBMISSION_TYPE_DEFAULT == "tab-default"

TAG_PDF == <<60, 80, 68, 70, 62>>
TAG_XBRL == <<60, 88, 66, 82, 76, 62>>
TAG_XML == <<60, 88, 77, 76, 62>>

\* detect_submission_type(first_line): the type, or "UnknownSubmissionType"
sgml_parser_detect_submission_type(first_line) ==
    IF starts_with(first_line, SUBMISSION) THEN SUBMISSION_TYPE_DASHED
    ELSE IF starts_with(first_line, PRIVACY_MSG) THEN SUBMISSION_TYPE_PRIVACY
    ELSE IF starts_with(first_line, SEC_DOCUMENT) THEN SUBMISSION_TYPE_DEFAULT
    ELSE "UnknownSubmissionType"

detect_uu(first_line) == starts_with(str_trim(first_line), BEGIN)

\* the inner while loop of optimized_fallback_decode over the bytes of a line
RECURSIVE fallback_groups(_, _, _, _)
fallback_groups(bytes, i, length, out) ==
    IF ~(i + 3 < Len(bytes) /\ Len(out) < length) THEN out
    ELSE IF \A k \in 0..3 : At(bytes, i + k) > SPACE /\ At(bytes, i + k) <= SPACE + 64
    THEN LET val1 == UUVal(At(bytes, i))
             val2 == UUVal(At(bytes, i + 1))
             val3 == UUVal(At(bytes, i + 2))
             val4 == UUVal(At(bytes, i + 3))
             three == << ((val1 * 4) % 256) + (val2 \div 16),
                         (((val2 % 16) * 16) % 256) + (val3 \div 4),
                         (((val3 % 4) * 64) % 256) + val4 >>
             room == length - Len(out)
         IN  fallback_groups(bytes, i + 4, length,
                             out \o SubSeq(three, 1, IF room < 3 THEN room ELSE 3))
    ELSE fallback_groups(bytes, i + 1, length, out)

\* the loop of optimized_fallback_decode over the lines
RECURSIVE fallback_lines(_, _, _)
fallback_lines(ls, in_data, acc) ==
    IF ls = <<>> THEN acc
    ELSE LET trimmed == str_trim(ls[1])
         IN  IF ~in_data
             THEN fallback_lines(Tail(ls), starts_with(trimmed, BEGIN), acc)
             ELSE IF trimmed = <<>> \/ trimmed = END THEN acc
             ELSE IF Len(trimmed) < 2 \/ UUVal(trimmed[1]) = 0
             THEN fallback_lines(Tail(ls), in_data, acc)
             ELSE fallback_lines(Tail(ls), in_data,
                      acc \o fallback_groups(trimmed, 1, UUVal(trimmed[1]), <<>>))

optimized_fallback_decode(ls) == fallback_lines(ls, FALSE, <<>>)

\* whether the loop of optimized_fallback_decode comes to a data line whose
\* first byte is below 32: (bytes[0] - b' ') on a u8 overflows there
RECURSIVE fallback_lines_overflow(_, _)
fallback_lines_overflow(ls, in_data) ==
    IF ls = <<>> THEN FALSE
    ELSE LET trimmed == str_trim(ls[1])
         IN  IF ~in_data
             THEN fallback_lines_overflow(Tail(ls), starts_with(trimmed, BEGIN))
             ELSE IF trimmed = <<>> \/ trimmed = END THEN FALSE
             ELSE IF Len(trimmed) < 2 THEN fallback_lines_overflow(Tail(ls), in_data)
             ELSE trimmed[1] < 32 \/ fallback_lines_overflow(Tail(ls), in_data)

\* uuencode::uudecode(content) belongs to the uuencode crate, outside the
\* repository: the answers it can give are None, written <<>>, and Some of the
\* decoded bytes, written <<bytes>>
uudecode(content) == {<<>>, <<decode(content)>>}

\* decode_uu(lines), r the answer of uudecode(lines.join("\n"))
decode_uu(ls, r) == IF r # <<>> THEN r[1] ELSE optimized_fallback_decode(ls)

\* clean_lines(lines)
clean_lines(ls) ==
    LET full == {k \in 1..Len(ls) : str_trim(ls[k]) # <<>>}
    IN  IF full = {} THEN <<>>
        ELSE LET start_idx == SetMin(full) - 1
                 first_line_trimmed == str_trim(ls[start_idx + 1])
             IN  IF first_line_trimmed \in {TAG_PDF, TAG_XBRL, TAG_XML}
                 THEN LET tag == SubSeq(first_line_trimmed, 2,
                                        Len(first_line_trimmed) - 1)
                          end_tag == <<ANGLE_OPEN, SLASH>> \o tag \o <<ANGLE_CLOSE>>
                          ends == {k \in (start_idx + 1)..Len(ls) :
                                       str_trim(ls[k]) = end_tag}
                          end_pos == IF ends = {} THEN Len(ls) ELSE SetMax(ends) - 1
                      IN  VecSlice(ls, start_idx + 1, end_pos)
                 ELSE VecSlice(ls, start_idx, Len(ls))

\* process_text_content(lines), r the answer of uudecode when it is asked
sgml_parser_process_text_content(ls, r) ==
    LET cleaned_line_refs == clean_lines(ls)
    IN  IF cleaned_line_refs = <<>> THEN <<>>
        ELSE IF detect_uu(cleaned_line_refs[1]) THEN decode_uu(cleaned_line_refs, r)
        ELSE str_join(cleaned_line_refs)

\* whether process_text_content(lines) comes to the overflow of the fallback
\* decoder: the text is uuencoded, uudecode answers None, and a data line
\* begins with a byte below 32
sgml_parser_process_text_content_overflows(ls, r) ==
    LET cleaned_line_refs == clean_lines(ls)
    IN  /\ cleaned_line_refs # <<>>
        /\ detect_uu(cleaned_line_refs[1])
        /\ r = <<>>
        /\ fallback_lines_overflow(cleaned_line_refs, FALSE)

\* parse_document_metadata(lines): cur = <<>> is None, <<key>> is Some(key)
RECURSIVE sgml_parser_doc_metadata_lines(_, _, _)
sgml_parser_doc_metadata_lines(ls, md, cur) ==
    IF ls = <<>> THEN md
    ELSE LET line == ls[1]
             pos == memchr(ANGLE_CLOSE, line)
         IN  IF starts_with(line, <<ANGLE_OPEN>>) /\ pos >= 0
             THEN LET key == ascii_to_lowercase(Slice(line, 1, pos))
                      value == str_trim(SliceFrom(line, pos + 1))
                  IN  sgml_parser_doc_metadata_lines(Tail(ls), Put(md, key, Text(value)),
                                                     <<key>>)
             ELSE IF cur # <<>> /\ Has(md, cur[1]) /\ md[cur[1]].t = "Text"
             THEN sgml_parser_doc_metadata_lines(Tail(ls),
                      Put(md, cur[1],
                          Text(md[cur[1]].v \o <<SPACE>> \o str_trim(line))),
                      cur)
             ELSE sgml_parser_doc_metadata_lines(Tail(ls), md, cur)

sgml_parser_parse_document_metadata(ls) ==
    sgml_parser_doc_metadata_lines(ls, EmptyDict, <<>>)

\* usize::MAX stands for "not set" in build_document_index
NotSet == -1

\* the first non-empty trimmed line after line i: <<>> for None, <<line>> for Some
next_line_after(ls, i) ==
    LET full == {j \in (i + 1)..(Len(ls) - 1) : str_trim(ls[j + 1]) # <<>>}
    IN  IF full = {} THEN <<>> ELSE <<str_trim(ls[SetMin(full) + 1])>>

\* the second loop of build_document_index from line i on
RECURSIVE sgml_parser_index_lines(_, _, _, _, _)
sgml_parser_index_lines(ls, i, doc_start, text_start, index_acc) ==
    IF i >= Len(ls) THEN index_acc
    ELSE LET line == ls[i + 1]
         IN  IF line = DOCUMENT_OPEN
             THEN sgml_parser_index_lines(ls, i + 1, i, text_start, index_acc)
             ELSE IF line = DOCUMENT_CLOSE
             THEN IF doc_start # NotSet
                  THEN sgml_parser_index_lines(ls, i + 1, NotSet, text_start,
                           [index_acc EXCEPT !.document_positions =
                                Append(@, <<doc_start, i>>)])
                  ELSE sgml_parser_index_lines(ls, i + 1, doc_start, text_start, index_acc)
             ELSE IF line = TEXT_OPEN
             THEN sgml_parser_index_lines(ls, i + 1, doc_start, i, index_acc)
             ELSE IF contains(line, TEXT_CLOSE)
                     /\ text_start # NotSet
                     /\ next_line_after(ls, i) = <<DOCUMENT_CLOSE>>
             THEN sgml_parser_index_lines(ls, i + 1, doc_start, NotSet,
                      [index_acc EXCEPT
                          !.text_leftovers =
                              IF line # TEXT_CLOSE
                              THEN Put(@, i, Slice(line, 0, find_tag(line, TEXT_CLOSE, 0)))
                              ELSE @,
                          !.text_positions = Append(@, <<text_start, i>>)])
             ELSE sgml_parser_index_lines(ls, i + 1, doc_start, text_start, index_acc)

\* build_document_index(lines)
sgml_parser_build_document_index(ls) ==
    LET firsts == {i \in 0..(Len(ls) - 1) : ls[i + 1] = DOCUMENT_OPEN}
    IN  sgml_parser_index_lines(ls, 0, NotSet, NotSet,
            [document_positions |-> <<>>,
             text_positions |-> <<>>,
             header_end |-> IF firsts = {} THEN 0 ELSE SetMin(firsts),
             text_leftovers |-> EmptyDict])

\* an insert that replaces the value stored under the key
insert_replacing(dict, key, value) == Put(dict, key, value)

\* insert_or_append(dict, key, value)
insert_or_append(dict, key, value) ==
    IF Has(dict, key)
    THEN IF dict[key].t = "List"
         THEN Put(dict, key, List(Append(dict[key].v, value)))
         ELSE Put(dict, key, List(<<dict[key], value>>))
    ELSE Put(dict, key, value)

\* dict.insert(tag, Dict(item.dict)) on the parent of a popped item: the top of
\* the stack left, or header_metadata when the stack is empty
insert_popped(stack, hm, item) ==
    IF stack = <<>>
    THEN [stack |-> stack, hm |-> Put(hm, item.tag, Dict(item.dict))]
    ELSE [stack |-> [stack EXCEPT ![Len(stack)].dict =
                         Put(@, item.tag, Dict(item.dict))],
          hm |-> hm]

\* insert_or_append on the dict of the top item, or on header_metadata
insert_leaf(stack, hm, tag, value) ==
    IF stack = <<>>
    THEN [stack |-> stack, hm |-> insert_or_append(hm, tag, value)]
    ELSE [stack |-> [stack EXCEPT ![Len(stack)].dict = insert_or_append(@, tag, value)],
          hm |-> hm]

\* "while let Some(item) = stack.pop()": every item left is inserted in its parent
RECURSIVE drain_stack(_, _)
drain_stack(stack, hm) ==
    IF stack = <<>> THEN hm
    ELSE LET r == insert_popped(Front(stack), hm, Last(stack))
         IN  drain_stack(r.stack, r.hm)

\* one iteration of the loop of parse_dashed_metadata, on line i (0-based) of
\* the header lines; panic when &line[1..pos] is taken with pos = 0
dashed_metadata_line(ls, i, stack, hm) ==
    LET line == ls[i + 1]
        pos == memchr(ANGLE_CLOSE, line)
        same == [panic |-> FALSE, stack |-> stack, hm |-> hm]
    IN  IF pos < 0 THEN same
        ELSE IF pos < 1 THEN [panic |-> TRUE, stack |-> stack, hm |-> hm]
        ELSE LET tag == ascii_to_lowercase(Slice(line, 1, pos))
                 text == str_trim(SliceFrom(line, pos + 1))
             IN  IF starts_with(tag, <<SLASH>>)
                 THEN LET name == SliceFrom(tag, 1)
                      IN  IF stack # <<>> /\ Last(stack).tag = name
                          THEN LET r == insert_popped(Front(stack), hm,
                                            [tag |-> name, dict |-> Last(stack).dict])
                               IN  [panic |-> FALSE, stack |-> r.stack, hm |-> r.hm]
                          ELSE same
                 ELSE LET closing == <<ANGLE_OPEN, SLASH>> \o tag \o <<ANGLE_CLOSE>>
                          closes_later ==
                              \E j \in (i + 1)..(Len(ls) - 1) :
                                  contains(ascii_to_lowercase(ls[j + 1]), closing)
                      IN  IF closes_later
                          THEN [panic |-> FALSE,
                                stack |-> Append(stack, [tag |-> tag, dict |-> EmptyDict]),
                                hm |-> hm]
                          ELSE IF text # <<>>
                          THEN LET r == insert_leaf(stack, hm, tag, Text(text))
                               IN  [panic |-> FALSE, stack |-> r.stack, hm |-> r.hm]
                          ELSE same

\* whether a line ends the privacy message: it is blank, or a '<' in it is
\* followed by an uppercase letter
ends_privacy_msg(line) ==
    \/ str_trim(line) = <<>>
    \/ /\ memchr(ANGLE_OPEN, line) >= 0
       /\ \E q \in (memchr(ANGLE_OPEN, line) + 1)..(Len(line) - 1) : IsUpper(At(line, q))

\* the loop of parse_tab_metadata that collects the privacy message, from
\* line i (0-based) on
RECURSIVE privacy_msg_lines(_, _, _, _, _)
privacy_msg_lines(ls, i, found_start, skip_lines, privacy_msg) ==
    IF i >= Len(ls) THEN [privacy_msg |-> privacy_msg, skip_lines |-> skip_lines]
    ELSE LET line == ls[i + 1]
         IN  IF str_trim(line) = PRIVACY_MSG
             THEN privacy_msg_lines(ls, i + 1, TRUE, i + 1, privacy_msg)
             ELSE IF ~found_start
             THEN privacy_msg_lines(ls, i + 1, found_start, skip_lines, privacy_msg)
             ELSE IF ends_privacy_msg(line)
             THEN [privacy_msg |-> privacy_msg, skip_lines |-> skip_lines]
             ELSE privacy_msg_lines(ls, i + 1, found_start, skip_lines + 1,
                      (IF privacy_msg # <<>> THEN privacy_msg \o NL ELSE <<>>)
                          \o str_trim(line))

\* the start of parse_tab_metadata: header_metadata after the privacy message
\* and the number of lines that lines_to_process leaves out
tab_metadata_start(ls, submission_type) ==
    LET r == privacy_msg_lines(ls, 0, FALSE, 0, <<>>)
    IN  IF submission_type = SUBMISSION_TYPE_PRIVACY /\ r.privacy_msg # <<>>
        THEN [hm |-> Put(EmptyDict, KEY_PRIVACY, Text(r.privacy_msg)),
              skip |-> IF r.skip_lines < Len(ls) THEN r.skip_lines ELSE Len(ls)]
        ELSE [hm |-> EmptyDict, skip |-> 0]

\* the two while loops of parse_tab_metadata that pop the items whose indent
\* is at least (geq) or exactly the indent of the line
RECURSIVE pop_items(_, _, _, _)
pop_items(stack, hm, indent, geq) ==
    IF stack # <<>>
       /\ (IF geq THEN Last(stack).indent >= indent ELSE Last(stack).indent = indent)
    THEN LET r == insert_popped(Front(stack), hm, Last(stack))
         IN  pop_items(r.stack, r.hm, indent, geq)
    ELSE [stack |-> stack, hm |-> hm]

\* one iteration of the second loop of parse_tab_metadata, on a line of
\* lines_to_process; panic when &line[1..pos] is taken with pos = 0
tab_metadata_line(line, stack, hm) ==
    LET trimmed == str_trim(line)
        indent == Len(line) - Len(str_trim_start(line))
        gt == memchr(ANGLE_CLOSE, line)
        colon == memchr(COLON, line)
        same == [panic |-> FALSE, stack |-> stack, hm |-> hm]
        tag_part == Slice(line, 1, gt)
        tag == IF gt >= 0 THEN ascii_to_lowercase(str_trim(tag_part))
               ELSE ascii_to_lowercase(str_trim(Slice(line, 0, colon)))
        text == IF gt >= 0 THEN str_trim(SliceFrom(line, gt + 1))
                ELSE str_trim(SliceFrom(line, colon + 1))
    IN  IF trimmed = <<>> THEN same
        ELSE IF gt = 0 THEN [panic |-> TRUE, stack |-> stack, hm |-> hm]
        ELSE IF gt > 0 /\ starts_with(tag_part, <<SLASH>>) THEN same
        ELSE IF gt < 0 /\ colon < 0 THEN same
        ELSE LET popped == pop_items(stack, hm, indent, TRUE)
             IN  IF text # <<>>
                 THEN LET r == insert_leaf(popped.stack, popped.hm, tag, Text(text))
                      IN  [panic |-> FALSE, stack |-> r.stack, hm |-> r.hm]
                 ELSE LET again == pop_items(popped.stack, popped.hm, indent, FALSE)
                      IN  [panic |-> FALSE,
                           stack |-> Append(again.stack,
                                            [indent |-> indent, tag |-> tag,
                                             dict |-> EmptyDict]),
                           hm |-> again.hm]

\* the text position of the document (doc_start, doc_end): the first one that
\* lies inside it, <<>> for None
sgml_parser_text_range(idx, doc_start, doc_end) ==
    LET inside == {k \in 1..Len(idx.text_positions) :
                       /\ idx.text_positions[k][1] > doc_start
                       /\ idx.text_positions[k][2] < doc_end}
    IN  IF inside = {} THEN <<>> ELSE idx.text_positions[SetMin(inside)]

\* the lines handed to process_text_content
sgml_parser_text_lines(ls, idx, start, end) ==
    IF end \in DOMAIN idx.text_leftovers
    THEN Append(VecSlice(ls, start + 1, end), idx.text_leftovers[end])
    ELSE VecSlice(ls, start + 1, end + 1)

---------------------------------------------------------------------------
(* The inputs of the line-based parser: the families of the byte-based     *)
(* parser that need no header, and headers of lines of two small pools.    *)

MaxStrHeaderLines == 5

StrDashedPool ==
    << <<60, 66, 62>>,                         \* "<B>"
       <<60, 47, 66, 62>>,                     \* "</B>"
       LeafA,                                  \* "<A>v"
       <<62, 120>> >>                          \* ">x"

StrTabPool ==
    << <<60, 66, 62>>,                         \* "<B>"
       <<32>> \o LeafA,                        \* " <A>v"
       <<107, 58, 32, 118>>,                   \* "k: v"
       <<62, 120>> >>                          \* ">x"

StrDashedInputs ==
    {SUBMISSION \o NL \o JoinLines(StrDashedPool, pick) \o DOCUMENT_OPEN \o NL
        : pick \in SeqsUpTo(StrDashedPool, MaxStrHeaderLines)}

StrTabInputs ==
    {first \o NL \o JoinLines(StrTabPool, pick) \o DOCUMENT_OPEN \o NL
        : first \in {SEC_DOCUMENT, PRIVACY_MSG},
          pick \in SeqsUpTo(StrTabPool, MaxStrHeaderLines)}

\* a document whose uuencoded text has a data line that begins with byte 1
UU_LOW_FIRST == <<98, 101, 103, 105, 110, 32, 54, 52, 52, 32, 102, 10, 1, 48, 52, 41, 35, 120, 10, 101, 110, 100, 10>>   \* "begin 644 f\n\x0104)#x\nend\n"

StrUUInputs ==
    { SUBMISSION \o NL \o LeafA \o NL \o DOCUMENT_OPEN \o NL \o TagTypeA \o NL
          \o TEXT_OPEN \o NL \o body \o TEXT_CLOSE \o NL \o DOCUMENT_CLOSE \o NL
        : body \in {UU_LOW_FIRST, UU_WELL_FORMED} }

LinesInputs ==
    DetectInputs \cup StrDashedInputs \cup StrTabInputs \cup DocInputs \cup StrUUInputs

---------------------------------------------------------------------------
(* sgml_parser::parse_sgml_submission(content, None) as a state machine,   *)
(* and the enumeration of the returned root Dict.  tag_stack holds the     *)
(* stack of the header parser, metadata its header_metadata.               *)

InitLines ==
    /\ prog = "lines"
    /\ data \in LinesInputs
    /\ pc = "start"
    /\ Idle

\* the header lines: &lines[..doc_index.header_end]
header_lines == VecSlice(lines, 0, index.header_end)

\* content_str.lines(); if lines.is_empty() { return Ok((MetadataDict::new(), Vec::new())) }
LStart ==
    /\ prog = "lines" /\ pc = "start"
    /\ lines' = str_lines(data)
    /\ IF str_lines(data) = <<>>
       THEN pc' = "done" /\ result' = "Ok"
       ELSE pc' = "detect" /\ result' = result
    /\ UNCHANGED <<prog, data, stype, index, hdr_i, tag_stack, dict_stack,
                   metadata, doc_i, doc_metadata_list, documents, key_order, hist>>

\* let submission_type = detect_submission_type(&lines[0])?
LDetect ==
    /\ prog = "lines" /\ pc = "detect"
    /\ LET st == sgml_parser_detect_submission_type(lines[1])
       IN  IF st = "UnknownSubmissionType"
           THEN pc' = "done" /\ result' = st /\ stype' = stype
           ELSE pc' = "index" /\ result' = result /\ stype' = st
    /\ UNCHANGED <<prog, data, lines, index, hdr_i, tag_stack, dict_stack,
                   metadata, doc_i, doc_metadata_list, documents, key_order, hist>>

\* let doc_index = build_document_index(&lines)
LIndex ==
    /\ prog = "lines" /\ pc = "index"
    /\ index' = sgml_parser_build_document_index(lines)
    /\ pc' = "header"
    /\ UNCHANGED <<prog, data, lines, stype, hdr_i, tag_stack, dict_stack,
                   metadata, doc_i, doc_metadata_list, documents, result, key_order, hist>>

\* the entry of parse_header_metadata: the empty stack, and for the tab
\* dialects the privacy message and the start of lines_to_process
LHeaderStart ==
    /\ prog = "lines" /\ pc = "header"
    /\ tag_stack' = <<>>
    /\ IF stype = SUBMISSION_TYPE_DASHED
       THEN metadata' = EmptyDict /\ hdr_i' = 0
       ELSE LET r == tab_metadata_start(header_lines, stype)
            IN  metadata' = r.hm /\ hdr_i' = r.skip
    /\ pc' = "hloop"
    /\ UNCHANGED <<prog, data, lines, stype, index, dict_stack,
                   doc_i, doc_metadata_list, documents, result, key_order, hist>>

\* one iteration of the loop of parse_dashed_metadata
LDashedLine ==
    /\ prog = "lines" /\ pc = "hloop" /\ stype = SUBMISSION_TYPE_DASHED
    /\ hdr_i < Len(header_lines)
    /\ LET r == dashed_metadata_line(header_lines, hdr_i, tag_stack, metadata)
       IN  /\ tag_stack' = r.stack
           /\ metadata' = r.hm
           /\ IF r.panic
              THEN pc' = "done" /\ result' = "panic"
              ELSE pc' = pc /\ result' = result
    /\ hdr_i' = hdr_i + 1
    /\ UNCHANGED <<prog, data, lines, stype, index, dict_stack,
                   doc_i, doc_metadata_list, documents, key_order, hist>>

\* one iteration of the second loop of parse_tab_metadata
LTabLine ==
    /\ prog = "lines" /\ pc = "hloop" /\ stype # SUBMISSION_TYPE_DASHED
    /\ hdr_i < Len(header_lines)
    /\ LET r == tab_metadata_line(header_lines[hdr_i + 1], tag_stack, metadata)
       IN  /\ tag_stack' = r.stack
           /\ metadata' = r.hm
           /\ IF r.panic
              THEN pc' = "done" /\ result' = "panic"
              ELSE pc' = pc /\ result' = result
    /\ hdr_i' = hdr_i + 1
    /\ UNCHANGED <<prog, data, lines, stype, index, dict_stack,
                   doc_i, doc_metadata_list, documents, key_order, hist>>

\* the end of the header parser: the items left on the stack are inserted
LHeaderEnd ==
    /\ prog = "lines" /\ pc = "hloop"
    /\ hdr_i >= Len(header_lines)
    /\ metadata' = drain_stack(tag_stack, metadata)
    /\ tag_stack' = <<>>
    /\ doc_i' = 1
    /\ pc' = "docs"
    /\ UNCHANGED <<prog, data, lines, stype, index, hdr_i, dict_stack,
                   doc_metadata_list, documents, result, key_order, hist>>

\* one iteration of the loop over doc_index.document_positions; when the
\* fallback decoder subtracts 32 from a first byte below 32, a build with
\* overflow checks panics, a build without wraps and goes on
LDocument ==
    /\ prog = "lines" /\ pc = "docs"
    /\ doc_i <= Len(index.document_positions)
    /\ LET dp == index.document_positions[doc_i]
           tr == sgml_parser_text_range(index, dp[1], dp[2])
       IN  IF tr = <<>>
           THEN /\ doc_i' = doc_i + 1
                /\ UNCHANGED <<doc_metadata_list, documents, pc, result>>
           ELSE LET text_lines == sgml_parser_text_lines(lines, index, tr[1], tr[2])
                IN  \E r \in uudecode(str_join(clean_lines(text_lines))) :
                        \/ /\ sgml_parser_process_text_content_overflows(text_lines, r)
                           /\ pc' = "done" /\ result' = "panic"
                           /\ UNCHANGED <<doc_metadata_list, documents, doc_i>>
                        \/ /\ doc_metadata_list' =
                                  Append(doc_metadata_list,
                                         Dict(sgml_parser_parse_document_metadata(
                                                  VecSlice(lines, dp[1] + 1, tr[1]))))
                           /\ documents' =
                                  Append(documents,
                                         sgml_parser_process_text_content(text_lines, r))
                           /\ doc_i' = doc_i + 1
                           /\ UNCHANGED <<pc, result>>
    /\ UNCHANGED <<prog, data, lines, stype, index, hdr_i, tag_stack, dict_stack,
                   metadata, key_order, hist>>

\* if !documents_metadata.is_empty() { metadata.insert("documents", ..) };
\* Ok((metadata, documents))
LFinish ==
    /\ prog = "lines" /\ pc = "docs"
    /\ doc_i > Len(index.document_positions)
    /\ metadata' = IF doc_metadata_list # <<>>
                   THEN Put(metadata, KEY_DOCUMENTS, List(doc_metadata_list))
                   ELSE metadata
    /\ result' = "Ok"
    /\ pc' = "done"
    /\ UNCHANGED <<prog, data, lines, stype, index, hdr_i, tag_stack, dict_stack,
                   doc_i, doc_metadata_list, documents, key_order, hist>>

\* every order in which the keys of a HashMap can be visited
Orderings(S) ==
    {f \in [1..Cardinality(S) -> S] : \A i, j \in 1..Cardinality(S) : f[i] = f[j] => i = j}

\* "for (k, v) in &metadata" over the returned root Dict: a HashMap visits
\* its keys in the order of its hash table, which the program does not fix
LEnumerate ==
    /\ prog = "lines" /\ pc = "done" /\ result = "Ok"
    /\ key_order' \in Orderings(DOMAIN metadata)
    /\ pc' = "enumerated"
    /\ UNCHANGED <<prog, data, lines, stype, index, hdr_i, tag_stack, dict_stack,
                   metadata, doc_i, doc_metadata_list, documents, result, hist>>

NextLines ==
    \/ LStart
    \/ LDetect
    \/ LIndex
    \/ LHeaderStart
    \/ LDashedLine
    \/ LTabLine
    \/ LHeaderEnd
    \/ LDocument
    \/ LFinish
    \/ LEnumerate

SpecLines == InitLines /\ [][NextLines]_vars

---------------------------------------------------------------------------
(* Properties of sgml_parser::parse_sgml_submission.                       *)

LinesOk == prog = "lines" /\ pc = "done" /\ result = "Ok"

\* C2: whenever sgml_parser::parse_sgml_submission returns Ok, the root Dict
\* has the key "documents", mapped to a List with one entry per returned
\* document, also when no document is returned.
C2_DocumentsKeyPresent ==
    LinesOk =>
        /\ Has(metadata, KEY_DOCUMENTS)
        /\ metadata[KEY_DOCUMENTS].t = "List"
        /\ Len(metadata[KEY_DOCUMENTS].v) = Len(documents)

\* whether the first line of the input begins with one of the three markers
RecognizedDialect(s) ==
    \E marker \in {SUBMISSION, PRIVACY_MSG, SEC_DOCUMENT} : starts_with(FirstLine(s), marker)

\* C3: on an input whose first line begins with a dialect marker,
\* sgml_parser::parse_sgml_submission never panics, whatever its header lines.
C3_NoPanic ==
    (prog = "lines" /\ RecognizedDialect(data)) => result # "panic"

\* a dashed header that opens with two blocks <B>, the first holding <A>v
TwoBlocks ==
    BlockWithLeaf \o <<60, 66, 62>> \o NL \o <<60, 47, 66, 62>> \o NL

\* C4: when parse_dashed_metadata has read a header that opens with two <B>
\* blocks closed at the top level, the root Dict maps "b" to a List that holds
\* the Dict of the first block, then the Dict of the second.
C4_RepeatedBlocksList ==
    (/\ prog = "lines"
     /\ pc \in {"docs", "done", "enumerated"}
     /\ result # "panic"
     /\ starts_with(data, TwoBlocks))
    => /\ Has(metadata, KEY_B)
       /\ metadata[KEY_B].t = "List"
       /\ Len(metadata[KEY_B].v) >= 2
       /\ metadata[KEY_B].v[1] = Dict(Put(EmptyDict, KEY_A, Text(<<118>>)))
       /\ metadata[KEY_B].v[2] = Dict(EmptyDict)

\* the 0-based header line on which the root key first appears as a tag; the
\* privacy message comes before every line, "documents" after every line
FirstAppearance(key) ==
    LET at == {i \in 0..(Len(header_lines) - 1) :
                   LET line == header_lines[i + 1]
                   IN  /\ memchr(ANGLE_CLOSE, line) >= 1
                       /\ ascii_to_lowercase(Slice(line, 1, memchr(ANGLE_CLOSE, line))) = key}
    IN  IF key = KEY_PRIVACY THEN -1
        ELSE IF key = KEY_DOCUMENTS \/ at = {} THEN Len(lines)
        ELSE SetMin(at)

\* C7: the keys of the root Dict that parse_dashed_metadata returns are
\* enumerated in the order of their first appearance in the source.
C7_KeyOrderIsInsertionOrder ==
    (prog = "lines" /\ pc = "enumerated" /\ stype = SUBMISSION_TYPE_DASHED)
    => \A i, j \in 1..Len(key_order) :
           i < j => FirstAppearance(key_order[i]) < FirstAppearance(key_order[j])

---------------------------------------------------------------------------
(* insert_or_append applied to a dict that starts empty.  The values are   *)
(* the ones the header parsers store, String and Dict; hist records the    *)
(* key and the value of every call.                                        *)

MaxInserts == 3

InsertKeys == {KEY_A, KEY_B}

InsertValues ==
    {Text(<<120>>), Text(<<121>>), Dict(EmptyDict), Dict(Put(EmptyDict, KEY_A, Text(<<120>>)))}

InitInsert ==
    /\ prog = "insert"
    /\ data = <<>>
    /\ pc = "insert"
    /\ Idle

\* insert_or_append(&mut metadata, key, value)
Insert ==
    /\ prog = "insert"
    /\ Len(hist) < MaxInserts
    /\ \E key \in InsertKeys, value \in InsertValues :
          /\ metadata' = insert_or_append(metadata, key, value)
          /\ hist' = Append(hist, [key |-> key, value |-> value])
    /\ UNCHANGED <<prog, data, pc, lines, stype, index, hdr_i, tag_stack, dict_stack,
                   doc_i, doc_metadata_list, documents, result, key_order>>

NextInsert == Insert

SpecInsert == InitInsert /\ [][NextInsert]_vars

\* the values inserted under the key, in the order of the calls
RECURSIVE InsertedUnder(_, _)
InsertedUnder(h, key) ==
    IF h = <<>> THEN <<>>
    ELSE (IF h[1].key = key THEN <<h[1].value>> ELSE <<>>) \o InsertedUnder(Tail(h), key)

\* the rule of one call: what the call with (key, value) makes of dict
InsertStepRule ==
    (prog = "insert" /\ hist' # hist) =>
        LET key == Last(hist').key
            value == Last(hist').value
        IN  /\ DOMAIN metadata' = DOMAIN metadata \cup {key}
            /\ \A other \in DOMAIN metadata : other # key => metadata'[other] = metadata[other]
            /\ metadata'[key] =
                  IF ~Has(metadata, key) THEN value
                  ELSE IF metadata[key].t = "List"
                  THEN List(Append(metadata[key].v, value))
                  ELSE List(<<metadata[key], value>>)

\* the entry of every key after k inserts: absent, the value, or the List of
\* the k values in insertion order
InsertedInOrder ==
    prog = "insert" =>
        \A key \in InsertKeys :
            LET values == InsertedUnder(hist, key)
            IN  IF values = <<>> THEN ~Has(metadata, key)
                ELSE /\ Has(metadata, key)
                     /\ metadata[key] = IF Len(values) = 1 THEN values[1] ELSE List(values)

\* C6: a call of insert_or_append(dict, key, value) adds key -> value when the
\* key is absent, appends value when the entry is a List, makes the entry
\* List[existing, value] otherwise, and leaves every other key alone; so after
\* k inserts of String or Dict values under a key the entry is the value
\* (k = 1) or the List of the k values in insertion order (k >= 2).
C6_InsertOrAppend == [][InsertStepRule]_vars /\ []InsertedInOrder

\* C6 witness: three inserts under one key, the first a Dict, and the entry is
\* the List of the three values
C6_Witness ==
    /\ prog = "insert"
    /\ Len(hist) = 3
    /\ \A i \in 1..3 : hist[i].key = KEY_B
    /\ hist[1].value.t = "Dict"
    /\ hist[2].value.t = "Text"
    /\ metadata[KEY_B] = List(<<hist[1].value, hist[2].value, hist[3].value>>)

---------------------------------------------------------------------------
(* sgml.rs: parse_sgml_into_memory and the functions it calls.             *)

\* the k-th part (0-based) of line.split('>'), for a k the split reaches
split_part(line, sep, k) ==
    LET seps == SortedSeq({p \in 0..(Len(line) - 1) : At(line, p) = sep})
        from == IF k = 0 THEN 0 ELSE seps[k] + 1
        to == IF k < Len(seps) THEN seps[k + 1] ELSE Len(line)
    IN  Slice(line, from, to)

\* detect_submission_type(first_line): the type, or "UnknownSubmissionType"
sgml_detect_submission_type(first_line) ==
    IF starts_with(first_line, SUBMISSION) THEN "DashedDefault"
    ELSE IF starts_with(first_line, PRIVACY_MSG) THEN "TabPrivacy"
    ELSE IF starts_with(first_line, SEC_DOCUMENT) THEN "TabDefault"
    ELSE "UnknownSubmissionType"

\* the loop of build_document_index from line i on; doc_start and text_start
\* are -1 when not set
RECURSIVE sgml_index_lines(_, _, _, _, _)
sgml_index_lines(ls, i, doc_start, text_start, index_acc) ==
    IF i >= Len(ls) THEN index_acc
    ELSE LET line == ls[i + 1]
         IN  IF line = DOCUMENT_OPEN
             THEN sgml_index_lines(ls, i + 1, i, text_start,
                      [index_acc EXCEPT !.header_end =
                           IF doc_start < 0 /\ @ = 0 THEN i ELSE @])
             ELSE IF line = DOCUMENT_CLOSE
             THEN IF doc_start >= 0
                  THEN sgml_index_lines(ls, i + 1, -1, text_start,
                           [index_acc EXCEPT !.document_positions =
                                Append(@, <<doc_start, i>>)])
                  ELSE sgml_index_lines(ls, i + 1, doc_start, text_start, index_acc)
             ELSE IF line = TEXT_OPEN
             THEN sgml_index_lines(ls, i + 1, doc_start, i, index_acc)
             ELSE IF contains(line, TEXT_CLOSE)
                     /\ next_line_after(ls, i) = <<DOCUMENT_CLOSE>>
                     /\ text_start >= 0
             THEN sgml_index_lines(ls, i + 1, doc_start, -1,
                      [index_acc EXCEPT
                          !.text_leftovers =
                              IF line # TEXT_CLOSE
                              THEN Put(@, i, Slice(line, 0, find_tag(line, TEXT_CLOSE, 0)))
                              ELSE @,
                          !.text_positions = Append(@, <<text_start, i>>)])
             ELSE sgml_index_lines(ls, i + 1, doc_start, text_start, index_acc)

\* build_document_index(lines)
sgml_build_document_index(ls) == sgml_index_lines(ls, 0, -1, -1, DocumentIndex_new)

\* parse_document_metadata(lines): cur = <<>> is None, <<key>> is Some(key)
RECURSIVE sgml_doc_metadata_lines(_, _, _)
sgml_doc_metadata_lines(ls, md, cur) ==
    IF ls = <<>> THEN md
    ELSE LET line == ls[1]
         IN  IF starts_with(line, <<ANGLE_OPEN>>) /\ memchr(ANGLE_CLOSE, line) >= 0
             THEN LET key == ascii_to_lowercase(SliceFrom(split_part(line, ANGLE_CLOSE, 0), 1))
                      value == str_trim(split_part(line, ANGLE_CLOSE, 1))
                  IN  sgml_doc_metadata_lines(Tail(ls), Put(md, key, Text(value)), <<key>>)
             ELSE IF cur # <<>> /\ Has(md, cur[1]) /\ md[cur[1]].t = "Text"
             THEN sgml_doc_metadata_lines(Tail(ls),
                      Put(md, cur[1], Text(md[cur[1]].v \o <<SPACE>> \o str_trim(line))),
                      cur)
             ELSE sgml_doc_metadata_lines(Tail(ls), md, cur)

sgml_parse_document_metadata(ls) == sgml_doc_metadata_lines(ls, EmptyDict, <<>>)

\* one iteration of the loop of parse_dashed_default_header on line i (0-based)
sgml_dashed_line(ls, i, ts, ds) ==
    LET line == ls[i + 1]
        same == [tag_stack |-> ts, dict_stack |-> ds]
        part0 == split_part(line, ANGLE_CLOSE, 0)
        tag == ascii_to_lowercase(SliceFrom(part0, 1))
        text == str_trim(split_part(line, ANGLE_CLOSE, 1))
        closing == <<ANGLE_OPEN, SLASH>> \o tag \o <<ANGLE_CLOSE>>
        has_closing ==
            \E j \in (i + 1)..(Len(ls) - 1) :
                starts_with(ascii_to_lowercase(str_trim(ls[j + 1])), closing)
    IN  IF memchr(ANGLE_CLOSE, line) < 0 \/ ~starts_with(part0, <<ANGLE_OPEN>>) THEN same
        ELSE IF starts_with(tag, <<SLASH>>)
        THEN IF ts # <<>> /\ Last(ts) = SliceFrom(tag, 1)
             THEN [tag_stack |-> Front(ts), dict_stack |-> Front(ds)]
             ELSE same
        ELSE IF has_closing
        THEN [tag_stack |-> Append(ts, tag),
              dict_stack |-> Append(InsertTop(ds, tag, Dict(EmptyDict)), EmptyDict)]
        ELSE IF text # <<>>
        THEN [tag_stack |-> ts, dict_stack |-> InsertTop(ds, tag, Text(text))]
        ELSE same

RECURSIVE sgml_dashed_loop(_, _, _, _)
sgml_dashed_loop(ls, i, ts, ds) ==
    IF i >= Len(ls) THEN ds
    ELSE LET r == sgml_dashed_line(ls, i, ts, ds)
         IN  sgml_dashed_loop(ls, i + 1, r.tag_stack, r.dict_stack)

\* parse_dashed_default_header(lines): dict_stack[0]
sgml_parse_dashed_default_header(ls) == sgml_dashed_loop(ls, 0, <<>>, <<EmptyDict>>)[1]

\* the privacy message of parse_tab_header: the trimmed lines after the line
\* of the marker, up to a blank line or a line with '<' and an uppercase letter
sgml_privacy_msg(ls) ==
    LET marks == {i \in 0..(Len(ls) - 1) : str_trim(ls[i + 1]) = PRIVACY_MSG}
        first == SetMin(marks) + 1
        stops == {i \in first..(Len(ls) - 1) :
                      LET line == str_trim(ls[i + 1])
                      IN  \/ line = <<>>
                          \/ /\ memchr(ANGLE_OPEN, line) >= 0
                             /\ \E q \in 1..Len(line) : IsUpper(line[q])}
        stop == IF stops = {} THEN Len(ls) ELSE SetMin(stops)
        kept == [k \in 1..(stop - first) |-> str_trim(ls[first + k])]
    IN  IF marks = {} THEN <<>>
        ELSE <<str_join(AsSeq(kept, stop - first))>>

\* header_metadata of parse_tab_header before the loop over the lines
sgml_tab_start(ls, submission_type) ==
    IF submission_type = "TabPrivacy" /\ sgml_privacy_msg(ls) # <<>>
    THEN Put(EmptyDict, KEY_PRIVACY, Text(sgml_privacy_msg(ls)[1]))
    ELSE EmptyDict

\* one iteration of the loop of parse_tab_header over the lines
sgml_tab_line(line, is, ds) ==
    LET same == [tag_stack |-> is, dict_stack |-> ds]
        indent == Len(line) - Len(str_trim_start(line))
        has_gt == memchr(ANGLE_CLOSE, line) >= 0
        colon == memchr(COLON, line)
        part0 == split_part(line, ANGLE_CLOSE, 0)
        tag == IF has_gt THEN str_trim(ascii_to_lowercase(SliceFrom(part0, 1)))
               ELSE ascii_to_lowercase(str_trim(Slice(line, 0, colon)))
        text == IF has_gt THEN str_trim(split_part(line, ANGLE_CLOSE, 1))
                ELSE str_trim(SliceFrom(line, colon + 1))
        popped == pop_indents(is, ds, indent)
    IN  IF str_trim(line) = <<>> THEN same
        ELSE IF has_gt /\ ~starts_with(part0, <<ANGLE_OPEN>>) THEN same
        ELSE IF has_gt /\ starts_with(tag, <<SLASH>>) THEN same
        ELSE IF ~has_gt /\ colon < 0 THEN same
        ELSE IF text # <<>>
        THEN [tag_stack |-> popped.tag_stack,
              dict_stack |-> InsertTop(popped.dict_stack, tag, Text(text))]
        ELSE [tag_stack |-> Append(popped.tag_stack, indent),
              dict_stack |-> Append(InsertTop(popped.dict_stack, tag, Dict(EmptyDict)),
                                    EmptyDict)]

RECURSIVE sgml_tab_loop(_, _, _, _)
sgml_tab_loop(ls, i, is, ds) ==
    IF i >= Len(ls) THEN ds
    ELSE LET r == sgml_tab_line(ls[i + 1], is, ds)
         IN  sgml_tab_loop(ls, i + 1, r.tag_stack, r.dict_stack)

\* parse_tab_header(lines, submission_type): dict_stack[0]
sgml_parse_tab_header(ls, submission_type) ==
    sgml_tab_loop(ls, 0, <<0>>, <<sgml_tab_start(ls, submission_type)>>)[1]

\* parse_header_metadata(lines, submission_type)
sgml_parse_header_metadata(ls, submission_type) ==
    IF submission_type = "DashedDefault" THEN sgml_parse_dashed_default_header(ls)
    ELSE sgml_parse_tab_header(ls, submission_type)

\* utils::clean_lines(lines)
utils_clean_lines(ls) ==
    LET full == {k \in 1..Len(ls) : str_trim(ls[k]) # <<>>}
    IN  IF full = {} THEN <<>>
        ELSE LET trimmed_lines == SubSeq(ls, SetMin(full), Len(ls))
                 first_line == str_trim(trimmed_lines[1])
                 tag == SubSeq(first_line, 2, Len(first_line) - 1)
                 end_tag == <<ANGLE_OPEN, SLASH>> \o tag \o <<ANGLE_CLOSE>>
                 ends == {k \in 0..(Len(trimmed_lines) - 1) :
                              str_trim(trimmed_lines[k + 1]) = end_tag}
             IN  IF first_line \in {TAG_PDF, TAG_XBRL, TAG_XML} /\ ends # {}
                 THEN VecSlice(trimmed_lines, 1, SetMax(ends))
                 ELSE trimmed_lines

\* utils::process_text_content(lines), r the answer of uudecode when it is asked
utils_process_text_content(ls, r) ==
    LET cleaned_lines == utils_clean_lines(ls)
    IN  IF cleaned_lines = <<>> THEN <<>>
        ELSE IF detect_uu(cleaned_lines[1])
        THEN (IF r # <<>> THEN r[1] ELSE <<>>)
        ELSE str_join(cleaned_lines)

---------------------------------------------------------------------------
(* sgml.rs: parse_sgml_into_memory(content, None) as a state machine.      *)
(* dict_stack is not used; the header is parsed in one step.               *)

\* content = None
NoContent == <<-1>>

MemoryInputs ==
    {NoContent}
    \cup DetectInputs
    \cup DocInputs
    \cup {SUBMISSION \o NL \o JoinLines(StrDashedPool, pick) \o DOCUMENT_OPEN \o NL
             : pick \in SeqsUpTo(StrDashedPool, MaxHeaderLines)}
    \cup {first \o NL \o JoinLines(StrTabPool, pick) \o DOCUMENT_OPEN \o NL
             : first \in {SEC_DOCUMENT, PRIVACY_MSG},
               pick \in SeqsUpTo(StrTabPool, MaxHeaderLines)}

InitMemory ==
    /\ prog = "memory"
    /\ data \in MemoryInputs
    /\ pc = "start"
    /\ Idle

\* if filepath.is_none() && content.is_none() { return Err(NoInput) }
MStart ==
    /\ prog = "memory" /\ pc = "start"
    /\ IF data = NoContent
       THEN pc' = "done" /\ result' = "NoInput"
       ELSE pc' = "lines" /\ result' = result
    /\ UNCHANGED <<prog, data, lines, stype, index, hdr_i, tag_stack, dict_stack,
                   metadata, doc_i, doc_metadata_list, documents, key_order, hist>>

\* content.lines(); if lines.is_empty() { return Err(InvalidContent) }
MLines ==
    /\ prog = "memory" /\ pc = "lines"
    /\ lines' = str_lines(data)
    /\ IF str_lines(data) = <<>>
       THEN pc' = "done" /\ result' = "InvalidContent"
       ELSE pc' = "detect" /\ result' = result
    /\ UNCHANGED <<prog, data, stype, index, hdr_i, tag_stack, dict_stack,
                   metadata, doc_i, doc_metadata_list, documents, key_order, hist>>

\* let submission_type = detect_submission_type(&lines[0])?
MDetect ==
    /\ prog = "memory" /\ pc = "detect"
    /\ LET st == sgml_detect_submission_type(lines[1])
       IN  IF st = "UnknownSubmissionType"
           THEN pc' = "done" /\ result' = st /\ stype' = stype
           ELSE pc' = "index" /\ result' = result /\ stype' = st
    /\ UNCHANGED <<prog, data, lines, index, hdr_i, tag_stack, dict_stack,
                   metadata, doc_i, doc_metadata_list, documents, key_order, hist>>

\* let doc_index = build_document_index(&lines)
MIndex ==
    /\ prog = "memory" /\ pc = "index"
    /\ index' = sgml_build_document_index(lines)
    /\ pc' = "header"
    /\ UNCHANGED <<prog, data, lines, stype, hdr_i, tag_stack, dict_stack,
                   metadata, doc_i, doc_metadata_list, documents, result, key_order, hist>>

\* let mut metadata = parse_header_metadata(&lines[..doc_index.header_end], ..)
MHeader ==
    /\ prog = "memory" /\ pc = "header"
    /\ metadata' = sgml_parse_header_metadata(VecSlice(lines, 0, index.header_end), stype)
    /\ doc_i' = 1
    /\ pc' = "docs"
    /\ UNCHANGED <<prog, data, lines, stype, index, hdr_i, tag_stack, dict_stack,
                   doc_metadata_list, documents, result, key_order, hist>>

\* the lines handed to utils::process_text_content
sgml_text_lines(ls, idx, text_start, text_end) ==
    IF text_end \in DOMAIN idx.text_leftovers
    THEN Append(VecSlice(ls, text_start + 1, text_end), idx.text_leftovers[text_end])
    ELSE VecSlice(ls, text_start + 1, text_end)

\* one iteration of the loop over doc_index.document_positions
MDocument ==
    /\ prog = "memory" /\ pc = "docs"
    /\ doc_i <= Len(index.document_positions)
    /\ LET dp == index.document_positions[doc_i]
           tr == sgml_parser_text_range(index, dp[1], dp[2])
       IN  IF tr = <<>>
           THEN UNCHANGED <<doc_metadata_list, documents>>
           ELSE LET text_lines == sgml_text_lines(lines, index, tr[1], tr[2])
                IN  /\ doc_metadata_list' =
                           Append(doc_metadata_list,
                                  Dict(sgml_parse_document_metadata(
                                           VecSlice(lines, dp[1] + 1, tr[1]))))
                    /\ \E r \in uudecode(str_join(utils_clean_lines(text_lines))) :
                           documents' =
                               Append(documents, utils_process_text_content(text_lines, r))
    /\ doc_i' = doc_i + 1
    /\ UNCHANGED <<prog, data, pc, lines, stype, index, hdr_i, tag_stack, dict_stack,
                   metadata, result, key_order, hist>>

\* metadata.insert("documents", List(doc_metadata_list)); Ok((metadata, documents))
MFinish ==
    /\ prog = "memory" /\ pc = "docs"
    /\ doc_i > Len(index.document_positions)
    /\ metadata' = Put(metadata, KEY_DOCUMENTS, List(doc_metadata_list))
    /\ result' = "Ok"
    /\ pc' = "done"
    /\ UNCHANGED <<prog, data, lines, stype, index, hdr_i, tag_stack, dict_stack,
                   doc_i, doc_metadata_list, documents, key_order, hist>>

NextMemory ==
    \/ MStart
    \/ MLines
    \/ MDetect
    \/ MIndex
    \/ MHeader
    \/ MDocument
    \/ MFinish

\* the two entry points that take the submission from memory
InitEntryPoints == InitBytes \/ InitMemory

NextEntryPoints ==
    \/ BCheckEmpty
    \/ BDetect
    \/ BIndex
    \/ BHeaderStart
    \/ BDashedLine
    \/ BTabLine
    \/ BHeaderEnd
    \/ BDocument
    \/ BFinish
    \/ MStart
    \/ MLines
    \/ MDetect
    \/ MIndex
    \/ MHeader
    \/ MDocument
    \/ MFinish

SpecEntryPoints == InitEntryPoints /\ [][NextEntryPoints]_vars

\* whether the input is empty: a zero-length buffer for parse_sgml_bytes,
\* a zero-length content string for parse_sgml_into_memory
EmptyInput == prog \in {"bytes", "memory"} /\ Len(data) = 0

\* C9: on an empty input parse_sgml_bytes and parse_sgml_into_memory never
\* reach dialect detection, and they end with InvalidContent without metadata
\* or documents.
C9_EmptyRejected ==
    EmptyInput =>
        /\ pc \in {"start", "lines", "done"}
        /\ stype = ""
        /\ metadata = EmptyDict
        /\ documents = <<>>
        /\ pc = "done" => result = "InvalidContent"

\* C9 witness: parse_sgml_into_memory has returned InvalidContent on a
\* zero-length content string
C9_Witness ==
    /\ prog = "memory"
    /\ EmptyInput
    /\ pc = "done"
    /\ result = "InvalidContent"


---------------------------------------------------------------------------
(* byte_parser.rs: build_document_index on buffers put together from tags, *)
(* a payload byte and whitespace.                                          *)

MaxTokens == 5

IndexTokens ==
    << DOCUMENT_OPEN, DOCUMENT_CLOSE, TEXT_OPEN, TEXT_CLOSE,
       <<120>>,                                \* "x"
       NL,
       <<TAB>> >>

IndexInputs == {Concat(IndexTokens, pick) : pick \in SeqsUpTo(IndexTokens, MaxTokens)}

InitIndex ==
    /\ prog = "index"
    /\ data \in IndexInputs
    /\ pc = "start"
    /\ Idle

\* let doc_index = build_document_index(data, &lines)
IBuild ==
    /\ prog = "index" /\ pc = "start"
    /\ index' = build_document_index(data)
    /\ pc' = "done"
    /\ UNCHANGED <<prog, data, lines, stype, hdr_i, tag_stack, dict_stack, metadata,
                   doc_i, doc_metadata_list, documents, result, key_order, hist>>

NextIndex == IBuild

SpecIndex == InitIndex /\ [][NextIndex]_vars

IndexBuilt == prog = "index" /\ pc = "done"

\* the elements of a sequence
Range(seq) == {seq[k] : k \in 1..Len(seq)}

\* every pair of the list lies in the buffer, open before close
SpansInBuffer(ps) ==
    \A k \in 1..Len(ps) : 0 <= ps[k][1] /\ ps[k][1] < ps[k][2] /\ ps[k][2] <= Len(data)

\* the close of each pair of the list precedes the open of the next pair
SpansDisjoint(ps) ==
    \A k \in 1..(Len(ps) - 1) : ps[k][2] < ps[k + 1][1]

\* C11: every pair of document_positions and of text_positions satisfies
\* 0 <= open < close <= len(buffer), and the pairs of one kind are strictly
\* ordered and do not overlap.
C11_SpansOrderedDisjoint ==
    IndexBuilt =>
        /\ SpansInBuffer(index.document_positions)
        /\ SpansInBuffer(index.text_positions)
        /\ SpansDisjoint(index.document_positions)
        /\ SpansDisjoint(index.text_positions)

\* whether text pair t lies inside document pair d
TextInside(t, d) == d[1] < t[1] /\ t[2] < d[2]

\* C12: a document span contains at most one text span, every text span lies
\* inside exactly one document span, and no two text spans share a close.
C12_OneTextPerDocument ==
    IndexBuilt =>
        LET docs == index.document_positions
            texts == index.text_positions
        IN  /\ \A d \in 1..Len(docs) :
                   Cardinality({t \in 1..Len(texts) : TextInside(texts[t], docs[d])}) <= 1
            /\ \A t \in 1..Len(texts) :
                   Cardinality({d \in 1..Len(docs) : TextInside(texts[t], docs[d])}) = 1
            /\ \A t, u \in 1..Len(texts) : t # u => texts[t][2] # texts[u][2]

\* the offsets of the occurrences of a tag in the buffer
Occurrences(tag) == {p \in 0..(Len(data) - Len(tag)) : StartsAt(data, tag, p)}

\* whether the <DOCUMENT> at offset o has no close of its own: another
\* <DOCUMENT>, or the end of the input, comes before any </DOCUMENT>
Unclosed(o) ==
    LET close == find_tag(data, DOCUMENT_CLOSE, o)
    IN  close < 0 \/ \E o2 \in Occurrences(DOCUMENT_OPEN) : o < o2 /\ o2 < close

\* C13: a <DOCUMENT> without a close of its own opens no pair of
\* document_positions, and every other <DOCUMENT> is paired with the first
\* </DOCUMENT> that follows it.
C13_UnclosedDocumentDiscarded ==
    IndexBuilt =>
        \A o \in Occurrences(DOCUMENT_OPEN) :
            IF Unclosed(o)
            THEN \A d \in Range(index.document_positions) : d[1] # o
            ELSE <<o, find_tag(data, DOCUMENT_CLOSE, o)>> \in Range(index.document_positions)

\* ASCII whitespace: space, tab, CR, LF
IsAsciiWs(b) == b \in {SPACE, TAB, CR, NEWLINE}

\* whether </DOCUMENT> comes next at offset pos once ASCII whitespace is skipped
DocumentCloseNext(pos) ==
    \E q \in pos..Len(data) :
        /\ \A r \in pos..(q - 1) : IsAsciiWs(At(data, r))
        /\ StartsAt(data, DOCUMENT_CLOSE, q)

\* C14: a <TEXT> at t_open yields the pair (t_open, t_close) if and only if
\* t_close is the nearest following </TEXT> and, ASCII whitespace skipped,
\* </DOCUMENT> comes next behind it; otherwise it yields no pair.
C14_TextAcceptedIffDocumentCloseNext ==
    IndexBuilt =>
        Range(index.text_positions) =
            {<<t, find_tag(data, TEXT_CLOSE, t)>> : t \in
                {t \in Occurrences(TEXT_OPEN) :
                    /\ find_tag(data, TEXT_CLOSE, t) >= 0
                    /\ DocumentCloseNext(find_tag(data, TEXT_CLOSE, t) + Len(TEXT_CLOSE))}}

---------------------------------------------------------------------------
(* parse_sgml_bytes: leftovers and payloads.                               *)

\* the bytes between the </TEXT> at offset c and the </DOCUMENT> that follows
\* it, when no tag stands between the two and one of the bytes is not
\* whitespace; <<>> otherwise
TrailingBytes(c) ==
    LET after == c + Len(TEXT_CLOSE)
        d == find_tag(data, DOCUMENT_CLOSE, after)
    IN  IF /\ d >= 0
           /\ \A q \in after..(d - 1) : At(data, q) # ANGLE_OPEN
           /\ \E q \in after..(d - 1) : ~IsAsciiWs(At(data, q))
        THEN Slice(data, after, d)
        ELSE <<>>

\* the document pairs whose first <TEXT> is closed inside the pair by a </TEXT>
\* with trailing bytes, as records of the two offsets
BlocksWithTrailingBytes ==
    {b \in {[t_open |-> find_tag(data, TEXT_OPEN, dp[1]),
             t_close |-> find_tag(data, TEXT_CLOSE,
                                  IF find_tag(data, TEXT_OPEN, dp[1]) >= 0
                                  THEN find_tag(data, TEXT_OPEN, dp[1]) ELSE Len(data)),
             d_close |-> dp[2]] : dp \in Range(index.document_positions)} :
        /\ b.t_open >= 0
        /\ b.t_close >= 0
        /\ b.t_close < b.d_close
        /\ find_tag(data, DOCUMENT_CLOSE, b.t_close) = b.d_close
        /\ TrailingBytes(b.t_close) # <<>>}

\* C15: when bytes that are not whitespace stand between a </TEXT> and the
\* </DOCUMENT> that follows it, the index holds their span in text_leftovers
\* under the offset of the </TEXT>, and the payload returned for the document
\* is made from the text content with those bytes appended.
C15_LeftoverInPayload ==
    (prog = "bytes" /\ pc \in {"header", "hloop", "docs", "done"}) =>
        \A b \in BlocksWithTrailingBytes :
            /\ b.t_close \in DOMAIN index.text_leftovers
            /\ trim_ascii(Slice(data, index.text_leftovers[b.t_close][1],
                                      index.text_leftovers[b.t_close][2]))
                   = trim_ascii(TrailingBytes(b.t_close))
            /\ BytesOk =>
                   \E k \in 1..Len(documents) :
                       \E tail \in {TrailingBytes(b.t_close),
                                    trim_ascii(TrailingBytes(b.t_close))} :
                           documents[k] = process_text_content(
                               Slice(data, b.t_open + Len(TEXT_OPEN), b.t_close) \o tail)

KEY_ACCESSION_NUMBER == <<97, 99, 99, 101, 115, 115, 105, 111, 110, 45, 110, 117, 109, 98, 101, 114>>   \* "accession-number"
KEY_TYPE == <<116, 121, 112, 101>>   \* "type"
KEY_FILENAME == <<102, 105, 108, 101, 110, 97, 109, 101>>   \* "filename"

\* ASCII whitespace: space, tab, line feed, form feed, carriage return
IsWhitespace(b) == IsAsciiWs(b) \/ b = 12

\* the bytes of s from its first byte that is not ASCII whitespace
WithoutLeadingWs(s) ==
    IF \A k \in 1..Len(s) : IsWhitespace(s[k]) THEN <<>>
    ELSE SubSeq(s, CHOOSE k \in 1..Len(s) :
                       ~IsWhitespace(s[k]) /\ \A j \in 1..(k - 1) : IsWhitespace(s[j]),
                Len(s))

\* the bytes between <TEXT> and </TEXT> of the i-th block with a text span
TextSpanBytes(i) ==
    LET dp == AcceptedBlocks(data, index)[i]
        tr == text_range(data, index, dp[1], dp[2])
    IN  Slice(data, tr[1] + Len(TEXT_OPEN), tr[2])

\* C16: on scenario S1 parse_sgml_bytes returns the two header leaves, the
\* filename of the document and the payload "Hello.\n"; and every payload that
\* is not UU-encoded is the bytes of its text span without the leading
\* whitespace, the bytes before </TEXT> kept.
C16_ScenarioS1 ==
    /\ (BytesOk /\ data = S1Input) =>
           /\ Has(metadata, KEY_ACCESSION_NUMBER)
           /\ metadata[KEY_ACCESSION_NUMBER] = Text(<<48, 48, 48, 49, 45, 50, 51, 45, 52, 53, 54>>)
           /\ Has(metadata, KEY_TYPE)
           /\ metadata[KEY_TYPE] = Text(<<49, 48, 45, 75>>)
           /\ Len(metadata[KEY_DOCUMENTS].v) = 1
           /\ Has(metadata[KEY_DOCUMENTS].v[1].v, KEY_FILENAME)
           /\ metadata[KEY_DOCUMENTS].v[1].v[KEY_FILENAME] = Text(<<112, 114, 105, 109, 97, 114, 121, 46, 104, 116, 109>>)
           /\ documents = <<S1_HELLO \o NL>>
    /\ BytesOk =>
           /\ Len(documents) <= Len(AcceptedBlocks(data, index))
           /\ \A i \in 1..Len(documents) :
                  ~starts_with(WithoutLeadingWs(TextSpanBytes(i)), BEGIN)
                  => documents[i] = WithoutLeadingWs(TextSpanBytes(i))

\* C16 witness: scenario S1 has been parsed and its payload ends with the
\* newline that stands before </TEXT>
C16_Witness ==
    /\ BytesOk
    /\ data = S1Input
    /\ Len(documents) = 1
    /\ documents[1] = S1_HELLO \o NL
    /\ TextSpanBytes(1) = NL \o S1_HELLO \o NL

---------------------------------------------------------------------------
(* sgml_parser.rs: the lines of a payload.                                 *)

\* the document pairs of the line index that have a text pair inside
LinesAcceptedBlocks ==
    SelectSeq(index.document_positions,
              LAMBDA dp : sgml_parser_text_range(index, dp[1], dp[2]) # <<>>)

\* the lines strictly between the <TEXT> line and the line holding </TEXT> of
\* the i-th such pair, and the leftover recorded for that line if there is one
LinesBetween(i) ==
    LET dp == LinesAcceptedBlocks[i]
        tr == sgml_parser_text_range(index, dp[1], dp[2])
    IN  VecSlice(lines, tr[1] + 1, tr[2])
        \o (IF tr[2] \in DOMAIN index.text_leftovers
            THEN <<index.text_leftovers[tr[2]]>> ELSE <<>>)

\* C17: every payload parse_sgml_submission returns is made from the lines
\* strictly between the <TEXT> line and the line holding </TEXT>, plus the
\* leftover if one is recorded; the </TEXT> line is no part of it.
C17_PayloadWithoutTextClose ==
    LinesOk =>
        /\ Len(documents) = Len(LinesAcceptedBlocks)
        /\ \A i \in 1..Len(documents) :
               /\ ~contains(documents[i], TEXT_CLOSE)
               /\ (clean_lines(LinesBetween(i)) = <<>>
                   \/ ~detect_uu(clean_lines(LinesBetween(i))[1]))
                  => documents[i] = sgml_parser_process_text_content(LinesBetween(i), <<>>)

---------------------------------------------------------------------------
(* uu_decoder.rs: decode as a state machine, one line of the input in a    *)
(* step.  hdr_i is pos, lines holds one record for each line handed to     *)
(* decode_uu_line, hist holds the byte string an input was encoded from.   *)

\* one iteration of the while loop of decode at offset pos: whether the loop
\* is left, the next pos, and the line handed to decode_uu_line if one is
decode_step(input, pos) ==
    LET offset == memchr(NEWLINE, SliceFrom(input, pos))
    IN  IF offset >= 0
        THEN LET line_end == pos + offset
                 line == Slice(input, pos, line_end)
                 trimmed == uu_trim_ascii(line)
             IN  IF line # <<>> /\ trimmed = END
                 THEN [brk |-> TRUE, pos |-> pos, decoded |-> FALSE,
                       line |-> line, trimmed |-> trimmed]
                 ELSE [brk |-> FALSE, pos |-> line_end + 1, decoded |-> line # <<>>,
                       line |-> line, trimmed |-> trimmed]
        ELSE LET line == SliceFrom(input, pos)
                 trimmed == uu_trim_ascii(line)
             IN  [brk |-> TRUE, pos |-> pos,
                  decoded |-> trimmed # END /\ trimmed # <<>>,
                  line |-> line, trimmed |-> trimmed]

\* result.extend_from_slice(&decoded) for every line decoded so far
RECURSIVE decoded_bytes(_)
decoded_bytes(recs) ==
    IF recs = <<>> THEN <<>> ELSE recs[1].out \o decoded_bytes(Tail(recs))

\* UU encoding, the form the decoder is given to read: the character of a
\* 6-bit value, zero written as z (a space by the classic encoders, "`" by the
\* later ones; both lie in the printable range [32, 96])
uu_char(v, z) == IF v = 0 THEN z ELSE v + 32

\* the characters of the bytes b, three bytes to a group of four, the last
\* group filled up with zero bytes
RECURSIVE uu_encode_groups(_, _)
uu_encode_groups(b, z) ==
    IF b = <<>> THEN <<>>
    ELSE LET b1 == b[1]
             b2 == IF Len(b) >= 2 THEN b[2] ELSE 0
             b3 == IF Len(b) >= 3 THEN b[3] ELSE 0
         IN  << uu_char(b1 \div 4, z),
                uu_char(((b1 % 4) * 16) + (b2 \div 16), z),
                uu_char(((b2 % 16) * 4) + (b3 \div 64), z),
                uu_char(b3 % 64, z) >>
             \o uu_encode_groups(IF Len(b) > 3 THEN SubSeq(b, 4, Len(b)) ELSE <<>>, z)

\* a data line: the length character and the groups
uu_encode_line(b, z) == <<uu_char(Len(b), z)>> \o uu_encode_groups(b, z)

\* the data lines of x, width bytes to a line
RECURSIVE uu_encode_lines(_, _, _)
uu_encode_lines(x, width, z) ==
    IF x = <<>> THEN <<>>
    ELSE IF Len(x) <= width THEN uu_encode_line(x, z) \o NL
    ELSE uu_encode_line(SubSeq(x, 1, width), z) \o NL
         \o uu_encode_lines(SubSeq(x, width + 1, Len(x)), width, z)

UU_BEGIN_LINE == <<98, 101, 103, 105, 110, 32, 54, 52, 52, 32, 102>>   \* "begin 644 f"

\* the begin line, the data lines, the zero-length line and the end line
uu_encode(x, width, z) ==
    UU_BEGIN_LINE \o NL \o uu_encode_lines(x, width, z) \o <<uu_char(0, z)>> \o NL
    \o END \o NL

MaxPlainLen == 3
MaxUULines == 3
MaxLineBytes == 45

PlainBytes == {0, 64, 65, 255}

\* 46 bytes, one more than a full line holds
LongPlain == [k \in 1..(MaxLineBytes + 1) |-> (k * 37) % 256]

PlainInputs ==
    UNION {[1..k -> PlainBytes] : k \in 0..MaxPlainLen}
    \cup {LongPlain, SubSeq(LongPlain, 1, MaxLineBytes)}

ABC == <<65, 66, 67>>

\* the lines a payload is put together from
UULinePool ==
    << uu_encode_line(ABC, 96),                          \* a well-formed line
       <<38>> \o uu_encode_groups(ABC, 96),              \* 6 bytes declared, one group
       <<33>> \o uu_encode_groups(ABC \o ABC, 96),       \* 1 byte declared, two groups
       uu_encode_line(<<65, 66, 64>>, SPACE),            \* a group that ends with a space
       <<77>> \o uu_encode_groups(SubSeq(LongPlain, 1, 30), 96),   \* 45 declared, ten groups
       <<35, 48, 86>>,                                   \* "#0V", a group cut short
       <<1>> \o uu_encode_groups(ABC, 96),               \* a length byte below 32
       <<35, 48, 52, CR, 41, 35>>,                       \* "#04)#" with a CR inside
       <<35, 48, 97, 52, 41, 35>>,                       \* "#04)#" with an "a" inside
       <<35, 48, 52, 41>>,                               \* "#04)", a group cut short
       END,
       <<96>>,                                           \* the zero-length line
       <<>> >>

\* the inputs of test_uu_decode_basic, test_uu_decode_empty and
\* test_uu_decode_partial_line
UU_TEST_BASIC ==
    <<98, 101, 103, 105, 110, 32, 54, 52, 52, 32, 116, 101, 115, 116, 46, 116, 120, 116>> \o NL
    \o <<77, 53, 38, 65, 69, 40, 39, 49, 69, 60, 87, 48, 78>> \o NL
    \o <<96>> \o NL \o END \o NL
UU_TEST_EMPTY ==
    <<98, 101, 103, 105, 110, 32, 54, 52, 52, 32, 101, 109, 112, 116, 121, 46, 116, 120, 116>> \o NL
    \o <<96>> \o NL \o END \o NL
UU_TEST_PARTIAL ==
    <<98, 101, 103, 105, 110, 32, 54, 52, 52, 32, 112, 97, 114, 116, 105, 97, 108, 46, 116, 120, 116>> \o NL
    \o <<35, 48, 86>> \o NL \o <<96>> \o NL \o END \o NL

UUPayloads ==
    {BEGIN \o NL \o JoinLines(UULinePool, pick) \o tail :
        pick \in SeqsUpTo(UULinePool, MaxUULines),
        tail \in {<<>>, UULinePool[1], END}}
    \cup {<<>>, BEGIN, UULinePool[1] \o NL}
    \cup {UU_TEST_BASIC, UU_TEST_EMPTY, UU_TEST_PARTIAL}
    \cup {<<120, SPACE>> \o BEGIN \o NL \o UULinePool[1] \o NL \o tail :
              tail \in {<<>>, UU_TEST_EMPTY}}

InitUU ==
    /\ prog = "uu"
    /\ pc = "start"
    /\ \/ \E x \in PlainInputs, width \in {2, MaxLineBytes}, z \in {SPACE, 96} :
              /\ data = uu_encode(x, width, z)
              /\ hist = [encoded |-> TRUE, plain |-> x]
       \/ /\ data \in UUPayloads
          /\ hist = [encoded |-> FALSE, plain |-> <<>>]
    /\ lines = <<>>
    /\ stype = ""
    /\ index = DocumentIndex_new
    /\ hdr_i = 0
    /\ tag_stack = <<>>
    /\ dict_stack = <<>>
    /\ metadata = EmptyDict
    /\ doc_i = 0
    /\ doc_metadata_list = <<>>
    /\ documents = <<>>
    /\ result = ""
    /\ key_order = <<>>

\* let begin_pos = find_begin_line(input); if begin_pos.is_none() { return Vec::new() }
UBegin ==
    /\ prog = "uu" /\ pc = "start"
    /\ LET begin_pos == find_begin_line(data)
       IN  IF begin_pos < 0
           THEN /\ pc' = "done" /\ result' = "Ok" /\ documents' = << <<>> >>
                /\ hdr_i' = hdr_i
           ELSE /\ pc' = "loop" /\ hdr_i' = begin_pos
                /\ UNCHANGED <<result, documents>>
    /\ UNCHANGED <<prog, data, lines, stype, index, tag_stack, dict_stack, metadata,
                   doc_i, doc_metadata_list, key_order, hist>>

\* one iteration of while pos < input.len(): the line is decoded; a byte below
\* 32 makes the subtraction overflow, which panics in a build with overflow
\* checks and wraps in a build without
ULine ==
    /\ prog = "uu" /\ pc = "loop"
    /\ hdr_i < Len(data)
    /\ LET st == decode_step(data, hdr_i)
           recs == IF st.decoded
                   THEN Append(lines, [line |-> st.line,
                                       out |-> decode_uu_line(st.trimmed)])
                   ELSE lines
       IN  \/ /\ st.decoded /\ uu_underflows(st.trimmed)
              /\ pc' = "done" /\ result' = "panic"
              /\ UNCHANGED <<lines, hdr_i, documents>>
           \/ /\ lines' = recs
              /\ hdr_i' = st.pos
              /\ IF st.brk
                 THEN /\ pc' = "done" /\ result' = "Ok"
                      /\ documents' = <<decoded_bytes(recs)>>
                 ELSE UNCHANGED <<pc, result, documents>>
    /\ UNCHANGED <<prog, data, stype, index, tag_stack, dict_stack, metadata,
                   doc_i, doc_metadata_list, key_order, hist>>

\* the loop ends at the end of the input; result
UEnd ==
    /\ prog = "uu" /\ pc = "loop"
    /\ hdr_i >= Len(data)
    /\ pc' = "done" /\ result' = "Ok"
    /\ documents' = <<decoded_bytes(lines)>>
    /\ UNCHANGED <<prog, data, lines, stype, index, hdr_i, tag_stack, dict_stack,
                   metadata, doc_i, doc_metadata_list, key_order, hist>>

NextUU == UBegin \/ ULine \/ UEnd

SpecUU == InitUU /\ [][NextUU]_vars

UUOk == prog = "uu" /\ pc = "done" /\ result = "Ok"

\* C18: an input that is the well-formed UU form of a byte string x, lines of
\* at most 45 bytes, decodes to x.
C18_RoundTrip ==
    (prog = "uu" /\ pc = "done" /\ hist.encoded) =>
        /\ result = "Ok"
        /\ documents = <<hist.plain>>

\* C19: decode never fails: no line makes the subtraction of 32 overflow, and
\* the run ends with a byte vector.
C19_Infallible ==
    prog = "uu" =>
        /\ result # "panic"
        /\ pc = "done" => result = "Ok" /\ Len(documents) = 1

\* whether the line is a length byte followed by complete groups of four
\* characters of the printable range [32, 96]
CompleteGroups(line) ==
    /\ Len(line) >= 1
    /\ (Len(line) - 1) % 4 = 0
    /\ \A k \in 1..Len(line) : line[k] >= 32 /\ line[k] <= 96

\* the three bytes of each group of the line, by the bit layout
RECURSIVE GroupBytes(_)
GroupBytes(chars) ==
    IF Len(chars) < 4 THEN <<>>
    ELSE LET c1 == (chars[1] - 32) % 64
             c2 == (chars[2] - 32) % 64
             c3 == (chars[3] - 32) % 64
             c4 == (chars[4] - 32) % 64
         IN  << (c1 * 4) + (c2 \div 16), ((c2 % 16) * 16) + (c3 \div 4), ((c3 % 4) * 64) + c4 >>
             \o GroupBytes(SubSeq(chars, 5, Len(chars)))

\* the first min(n, 3g) bytes of the groups of a line that declares n bytes
DeclaredBytes(line) ==
    LET n == (line[1] - 32) % 64
        all == GroupBytes(Tail(line))
    IN  IF n < Len(all) THEN SubSeq(all, 1, n) ELSE all

\* C20: a data line that declares n bytes and carries g complete groups adds
\* exactly the first min(n, 3g) bytes of its groups to the output, and the
\* output is these per-line bytes one after the other, so the lines after it
\* decode as they would after a well-formed line.
C20_ShortLineEmitsWhatIsPresent ==
    prog = "uu" =>
        /\ \A k \in 1..Len(lines) :
               CompleteGroups(lines[k].line) => lines[k].out = DeclaredBytes(lines[k].line)
        /\ UUOk => documents[1] = decoded_bytes(lines)

\* the bytes of s that lie in the printable UU range [32, 96]
RECURSIVE OnlyPrintable(_)
OnlyPrintable(s) ==
    IF s = <<>> THEN <<>>
    ELSE (IF s[1] >= 32 /\ s[1] <= 96 THEN <<s[1]>> ELSE <<>>) \o OnlyPrintable(Tail(s))

\* C21: a byte of a data line outside the printable range [32, 96] is skipped
\* silently: the line decodes to the output of the line without these bytes.
C21_UnprintableSkipped ==
    prog = "uu" =>
        \A k \in 1..Len(lines) :
            lines[k].out = decode_uu_line(uu_trim_ascii(OnlyPrintable(lines[k].line)))

\* whether the characters after the length byte end with a group of fewer
\* than four, all of the line printable and no space at its ends
CutShort(line) ==
    /\ Len(line) >= 2
    /\ (Len(line) - 1) % 4 # 0
    /\ \A k \in 1..Len(line) : line[k] >= 32 /\ line[k] <= 96
    /\ line[1] # SPACE /\ line[Len(line)] # SPACE

\* the bytes of a group cut short: one byte from two characters, two from three
PartialBytes(chars) ==
    LET c1 == (chars[1] - 32) % 64
        c2 == IF Len(chars) >= 2 THEN (chars[2] - 32) % 64 ELSE 0
        c3 == IF Len(chars) >= 3 THEN (chars[3] - 32) % 64 ELSE 0
    IN  (IF Len(chars) >= 2 THEN <<(c1 * 4) + (c2 \div 16)>> ELSE <<>>)
        \o (IF Len(chars) >= 3 THEN <<((c2 % 16) * 16) + (c3 \div 4)>> ELSE <<>>)

\* the bytes that the characters present in a line cut short give, at most
\* the number the line declares
BytesPresent(line) ==
    LET n == (line[1] - 32) % 64
        chars == Tail(line)
        whole == (Len(chars) \div 4) * 4
        all == GroupBytes(SubSeq(chars, 1, whole))
               \o PartialBytes(SubSeq(chars, whole + 1, Len(chars)))
    IN  IF n < Len(all) THEN SubSeq(all, 1, n) ELSE all

\* C26: a data line whose last group is cut short adds the bytes its
\* characters give, one from two characters and two from three; and the
\* payload of test_uu_decode_partial_line decodes to the one byte "A".
C26_PartialGroup ==
    prog = "uu" =>
        /\ \A k \in 1..Len(lines) :
               CutShort(lines[k].line) => lines[k].out = BytesPresent(lines[k].line)
        /\ (pc = "done" /\ data = UU_TEST_PARTIAL) =>
               result = "Ok" /\ documents = << <<65>> >>

\* the lines of s: the pieces ended by a newline and the rest after the last
RECURSIVE SplitLines(_)
SplitLines(s) ==
    LET nl == memchr(NEWLINE, s)
    IN  IF nl < 0 THEN (IF s = <<>> THEN <<>> ELSE <<s>>)
        ELSE <<Slice(s, 0, nl)>> \o SplitLines(SliceFrom(s, nl + 1))

\* the decodings, one after the other, of the lines up to the first that
\* trims to "end"
RECURSIVE DecodeUntilEnd(_)
DecodeUntilEnd(ls) ==
    IF ls = <<>> \/ uu_trim_ascii(ls[1]) = END THEN <<>>
    ELSE decode_uu_line(uu_trim_ascii(ls[1])) \o DecodeUntilEnd(Tail(ls))

\* the output the framing gives: nothing without a line that starts with
\* "begin", else the decodings of the lines after the first such line
FramedOutput(s) ==
    LET ls == SplitLines(s)
        begins == {k \in 1..Len(ls) : starts_with(ls[k], BEGIN)}
    IN  IF begins = {} THEN <<>>
        ELSE DecodeUntilEnd(SubSeq(ls, SetMin(begins) + 1, Len(ls)))

\* C27: the output of decode is the decodings, in order, of the lines after
\* the first begin line and before the first line that trims to "end", all
\* remaining lines when there is no such line, and nothing when there is no
\* begin line; what stands behind the end line changes nothing.
C27_Framing == UUOk => documents = <<FramedOutput(data)>>

---------------------------------------------------------------------------
(* parse_tab_header: the privacy preamble and the keys of the header.      *)

\* C22: scenario S3: for the TabPrivacy header whose marker line is followed
\* by three lines without a tag and then a block of tags, the value of
\* metadata["privacy-enhanced-message"] is exactly the three lines with one
\* "\n" between them: no newline before the first or behind the last line,
\* and no other line.
C22_ScenarioS3 ==
    (BytesOk /\ data = S3Input) =>
        /\ Has(metadata, KEY_PRIVACY)
        /\ metadata[KEY_PRIVACY] = Text(S3_LINE1 \o NL \o S3_LINE2 \o NL \o S3_LINE3)

\* the lines collected into the privacy message of the header s[0..end)
PreambleLines(s, end) ==
    LET start_pos == find_tag(Slice(s, 0, end), PRIVACY_MSG, 0)
    IN  IF start_pos < 0 THEN <<>>
        ELSE privacy_lines(s, end,
                 skip_to_newline(s, end, start_pos + Len(PRIVACY_MSG)) + 1, <<>>)

\* the header lines behind the marker line and the collected lines
LinesAfterPreamble(s, end) ==
    LET hl == HeaderLines(s, end)
    IN  SubSeq(hl, Len(PreambleLines(s, end)) + 2, Len(hl))

\* C29: for the TabPrivacy dialect the line loop of parse_tab_header resumes
\* behind the preamble: the header's tree is the tree built from the lines
\* that follow the marker line and the collected lines, on top of the
\* privacy-enhanced-message entry, so a collected line with a colon adds no
\* key of its own.
C29_PreambleNotReparsed ==
    (prog = "bytes" /\ stype = "TabPrivacy" /\ pc = "docs") =>
        metadata = tab_loop(data, LinesAfterPreamble(data, index.header_end), 1, <<0>>,
                            <<tab_preamble(data, index.header_end, stype)>>)[1]

\* the key the header line gives by the key derivation rule: the lowercased
\* text between "<" and ">" for a line that begins with "<", the lowercased
\* trimmed text left of the first colon for any other line
DerivedKeys(line) ==
    IF line # <<>> /\ line[1] = ANGLE_OPEN
    THEN IF memchr(ANGLE_CLOSE, line) >= 1
         THEN {ascii_to_lowercase(Slice(line, 1, memchr(ANGLE_CLOSE, line)))}
         ELSE {}
    ELSE IF memchr(COLON, line) >= 0
         THEN {ascii_to_lowercase(trim_ascii(Slice(line, 0, memchr(COLON, line))))}
         ELSE {}

\* the keys of the frames on the dict stack, the preamble's key left out
StackKeys == UNION {DOMAIN dict_stack[f] : f \in 1..Len(dict_stack)} \ {KEY_PRIVACY}

\* C28: every key parse_tab_header inserts is the key derived from one of the
\* header's lines, between the angles for a line that begins with "<" and
\* left of the first colon, trimmed, for any other line; no key begins or
\* ends with whitespace or holds "<".
C28_TabKeyDerivation ==
    (prog = "bytes" /\ pc = "hloop" /\ stype \in {"TabDefault", "TabPrivacy"}) =>
        LET hl == HeaderLines(data, index.header_end)
        IN  \A k \in StackKeys :
                /\ \E i \in 1..Len(hl) :
                       k \in DerivedKeys(Slice(data, hl[i][1], hl[i][2]))
                /\ k = trim_ascii(k)
                /\ ANGLE_OPEN \notin Range(k)

---------------------------------------------------------------------------
(* parse_sgml_bytes: wrapper tags of a text payload, document metadata.    *)

WrapperTags ==
    { <<WRAP_PDF_OPEN, WRAP_PDF_CLOSE>>,
      <<WRAP_XBRL_OPEN, WRAP_XBRL_CLOSE>>,
      <<WRAP_XML_OPEN, WRAP_XML_CLOSE>> }

\* the first line of s that is not empty, <<>> when there is none
FirstNonEmptyLine(s) ==
    LET ls == index_lines(s)
        ne == {k \in 1..Len(ls) : ls[k][1] < ls[k][2]}
    IN  IF ne = {} THEN <<>> ELSE Slice(s, ls[SetMin(ne)][1], ls[SetMin(ne)][2])

\* C23: when the first non-empty line of a document's text payload is <PDF>,
\* <XBRL> or <XML>, the bytes parse_sgml_bytes returns for the document hold
\* neither this wrapper tag nor its closing tag.
C23_WrapperStripped ==
    BytesOk =>
        \A i \in 1..Len(documents) : \A w \in WrapperTags :
            (i <= Len(AcceptedBlocks(data, index))
             /\ FirstNonEmptyLine(TextSpanBytes(i)) = w[1])
            => /\ find_tag(documents[i], w[1], 0) < 0
               /\ find_tag(documents[i], w[2], 0) < 0

\* the metadata of a document block by the rule for tag and continuation
\* lines: a line <K>rest stores Text(trim(rest)) under lowercase(K), the
\* empty text included, and makes it the current key; a line that is not
\* empty and does not begin with "<" appends a space and the trimmed line to
\* the current key's text, and is skipped when there is no current key
RECURSIVE MetadataByLines(_, _, _, _, _)
MetadataByLines(slice, ls, k, md, cur) ==
    IF k > Len(ls) THEN md
    ELSE
    LET line == Slice(slice, ls[k][1], ls[k][2])
        close == memchr(ANGLE_CLOSE, line)
        key == ascii_to_lowercase(Slice(line, 1, close))
        rest == SliceFrom(line, close + 1)
    IN  IF line = <<>> THEN MetadataByLines(slice, ls, k + 1, md, cur)
        ELSE IF line[1] = ANGLE_OPEN
        THEN IF close >= 1
             THEN MetadataByLines(slice, ls, k + 1,
                                  Put(md, key, Text(trim_ascii(rest))), <<key>>)
             ELSE MetadataByLines(slice, ls, k + 1, md, cur)
        ELSE IF cur # <<>>
        THEN MetadataByLines(slice, ls, k + 1,
                 Put(md, cur[1], Text(md[cur[1]].v \o <<SPACE>> \o trim_ascii(line))),
                 cur)
        ELSE MetadataByLines(slice, ls, k + 1, md, cur)

\* C24: the metadata entry of every returned document is what the lines
\* between <DOCUMENT> and <TEXT> give line by line: each line <K>rest stores
\* Text(trim(rest)) under lowercase(K), also when rest is empty, and each
\* following line that does not begin with "<" appends a space and the
\* trimmed line; continuation lines before any tag line are skipped.
C24_DocumentMetadataLines ==
    BytesOk =>
        LET blocks == AcceptedBlocks(data, index)
        IN  \A i \in 1..Len(doc_metadata_list) :
                i <= Len(blocks) =>
                    LET dp == blocks[i]
                        slice == Slice(data, dp[1] + Len(DOCUMENT_OPEN),
                                       text_range(data, index, dp[1], dp[2])[1])
                    IN  doc_metadata_list[i] =
                            Dict(MetadataByLines(slice, index_lines(slice), 1,
                                                 EmptyDict, <<>>))

---------------------------------------------------------------------------
(* parse_dashed_default_header: the look-ahead and the stacks.             *)

\* the closing tag of lowercase_tag on any line behind line i
closes_later(s, hl, i, lowercase_tag) ==
    \E j \in (i + 1)..Len(hl) :
        LET next == parse_tag_content(Slice(s, hl[j][1], hl[j][2]))
        IN  next.ok /\ ascii_to_lowercase(next.tag) = <<SLASH>> \o lowercase_tag

\* the iteration of the line loop on header line i when the look-ahead scans
\* to the end of the header
dashed_line_scan_all(s, hl, i, ts, ds) ==
    LET line == Slice(s, hl[i][1], hl[i][2])
        tc == parse_tag_content(line)
        lowercase_tag == ascii_to_lowercase(tc.tag)
        same == [tag_stack |-> ts, dict_stack |-> ds]
    IN  IF line = <<>> \/ memchr(ANGLE_CLOSE, line) < 0 THEN same
        ELSE IF ~tc.ok THEN same
        ELSE IF lowercase_tag # <<>> /\ lowercase_tag[1] = SLASH
        THEN IF ts # <<>> /\ Last(ts) = Tail(lowercase_tag)
             THEN [tag_stack |-> Front(ts), dict_stack |-> Front(ds)]
             ELSE same
        ELSE IF closes_later(s, hl, i, lowercase_tag)
        THEN [tag_stack |-> Append(ts, lowercase_tag),
              dict_stack |-> Append(InsertTop(ds, lowercase_tag, Dict(EmptyDict)),
                                    EmptyDict)]
        ELSE IF trim_ascii(tc.content) # <<>>
        THEN [tag_stack |-> ts,
              dict_stack |-> InsertTop(ds, lowercase_tag, Text(trim_ascii(tc.content)))]
        ELSE same

\* the stacks after the header lines lo..hi with the look-ahead scanning to
\* the end, from the stacks st
RECURSIVE dashed_scan_all(_, _, _, _, _)
dashed_scan_all(s, hl, lo, hi, st) ==
    IF lo > hi THEN st
    ELSE IF lo = hi THEN dashed_line_scan_all(s, hl, lo, st.tag_stack, st.dict_stack)
    ELSE LET mid == (lo + hi) \div 2
             left == dashed_scan_all(s, hl, lo, mid, st)
         IN  dashed_scan_all(s, hl, mid + 1, hi, left)

\* C25: the look-ahead of parse_dashed_default_header, bounded to the lines up
\* to index i+100, gives the same metadata tree as a look-ahead that scans to
\* the end of the header, also when a block's closing tag stands 100 or more
\* lines behind its opening tag.
C25_LookaheadEquivalent ==
    (prog = "bytes" /\ stype = "DashedDefault" /\ pc = "docs") =>
        LET hl == HeaderLines(data, index.header_end)
        IN  metadata = dashed_scan_all(data, hl, 1, Len(hl),
                           [tag_stack |-> <<>>, dict_stack |-> <<EmptyDict>>]).dict_stack[1]

\* the two stacks of a header parser between two lines: the dict stack is
\* never empty, it is one frame higher than the tag stack of
\* parse_dashed_default_header and as high as the indent stack of
\* parse_tab_header (kept in tag_stack)
StackShape ==
    (prog = "bytes" /\ pc = "hloop") =>
        /\ Len(dict_stack) >= 1
        /\ IF stype = "DashedDefault"
           THEN Len(dict_stack) = Len(tag_stack) + 1
           ELSE Len(dict_stack) = Len(tag_stack)

\* the header line the loop is at is a closing tag of the dashed dialect that
\* does not match the tag on top of the tag stack, or meets an empty tag stack
UnmatchedClose ==
    LET hl == HeaderLines(data, index.header_end)
        line == Slice(data, hl[hdr_i][1], hl[hdr_i][2])
        close == memchr(ANGLE_CLOSE, line)
    IN  /\ stype = "DashedDefault"
        /\ hdr_i <= Len(hl)
        /\ close >= 2
        /\ line[2] = SLASH
        /\ \/ tag_stack = <<>>
           \/ tag_stack[Len(tag_stack)] # ascii_to_lowercase(Slice(line, 2, close))

\* one step of a header parser: a line keeps every key of the root frame, an
\* unmatched closing tag changes neither stack, and the parser returns the
\* frame at the bottom of the dict stack
HeaderStepRule ==
    (prog = "bytes" /\ pc = "hloop") =>
        /\ pc' = "hloop" =>
               /\ Len(dict_stack') >= 1
               /\ DOMAIN dict_stack[1] \subseteq DOMAIN dict_stack'[1]
               /\ UnmatchedClose => UNCHANGED <<tag_stack, dict_stack>>
        /\ pc' = "docs" => metadata' = dict_stack[1]

\* C30: after any prefix of the header lines parse_dashed_default_header holds
\* dict_stack.len() = tag_stack.len() + 1 >= 1 and parse_tab_header holds
\* dict_stack.len() = indent_stack.len() >= 1; the root frame is never popped,
\* a closing tag that does not match the top tag or meets only the root
\* changes neither stack, so the top of the dict stack always exists, and the
\* Dict returned is the root frame.
C30_StackDiscipline == [][HeaderStepRule]_vars /\ []StackShape

\* C30 witness: the tab parser has opened the block <B> and come back to
\* the root frame for the line "k: v"
C30_Witness ==
    /\ prog = "bytes" /\ pc = "hloop" /\ stype = "TabDefault"
    /\ Len(dict_stack) = 1
    /\ Has(dict_stack[1], KEY_B) /\ dict_stack[1][KEY_B] = Dict(EmptyDict)
    /\ Has(dict_stack[1], <<107>>) /\ dict_stack[1][<<107>>] = Text(<<118>>)

=============================================================================
